---------------------------- MODULE Spec2Model ----------------------------
(***************************************************************************)
(* A model of the project-bookkeeping core of remixonwin/mytool:           *)
(* ProjectDataStore (src/src/agent/data_store.py), TaskManager             *)
(* (src/src/agent/task_manager.py) and ProjectManager                      *)
(* (src/src/agent/project_manager.py).                                     *)
(*                                                                         *)
(* The state is the directory tree under the store's root (which category  *)
(* directories exist, and the text of every <category>/<name>.json file),  *)
(* the UTC clock that datetime.utcnow() reads, and a record of the last    *)
(* call made and how it ended.  The clock is an environment input: it      *)
(* never runs backwards, and two reads may return the same value.          *)
(***************************************************************************)
EXTENDS Integers, Sequences, FiniteSets, TLC

VARIABLES
    dirs,     \* the category directories that exist under base_dir
    files,    \* path <<directory, name>> -> content of the file (the store's
              \* <category>/<name>.json files; for the hooks, the files of docs)
    now,      \* the clock, in ticks (the resolution of isoformat())
    last,     \* the last call completed: operation, arguments, outcome
    order,    \* history: names saved under analyses, in the order of the saves
    procs,    \* concurrent callers of update_task_status: pc and locals
    wr,       \* the write in progress inside save_data (open, dump, close)
    nops      \* number of calls made so far

vars == <<dirs, files, now, last, order, procs, wr, nops>>

-----------------------------------------------------------------------------
(* Bounds of the model *)

MaxTime == 2
TicksPerSec == 2
MaxStoreOps == 3
MaxCrashOps == 2
MaxOps == 3
MaxTasks == 3
MaxLen == 4
MaxNormalize == 2
MaxTrackerOps == 4

-----------------------------------------------------------------------------
(* Python values *)

\* Optional[X]: None is the empty sequence, a value x is <<x>>.
None == <<>>
Some(x) == <<x>>

\* The empty dict.
NoData == [x \in {} |-> 0]

\* Truthiness of an Optional[str]: None and "" are falsy.
Truthy(opt) == opt # None /\ opt[1] # ""

-----------------------------------------------------------------------------
(* Names and timestamps *)

\* A file's stem: a prefix and, for timestamp-derived names, the second the
\* name was derived at; NoTs for a plain name such as "latest".
NoTs == -1
Name(pre, ts) == [pre |-> pre, ts |-> ts]
Latest == Name("latest", NoTs)

\* datetime.utcnow() truncated to the second, as strftime("%Y%m%d_%H%M%S")
\* sees it.
SecOf(t) == t \div TicksPerSec

\* The characters of the prefixes (code points).
Chars(s) ==
    CASE s = "analysis"      -> <<97, 110, 97, 108, 121, 115, 105, 115>>
      [] s = "risk_analysis" -> <<114, 105, 115, 107, 95, 97, 110, 97, 108, 121, 115, 105, 115>>
      [] s = "task"          -> <<116, 97, 115, 107>>
      [] s = "report"        -> <<114, 101, 112, 111, 114, 116>>
      [] s = "latest"        -> <<108, 97, 116, 101, 115, 116>>
      [] OTHER               -> <<>>

\* strftime: fixed-width, zero-padded decimal digits.
Stamp(sec) == <<48 + ((sec \div 10) % 10), 48 + (sec % 10)>>

\* f"{prefix}_{timestamp}" as a string of code points.
NameStr(n) ==
    IF n.ts = NoTs THEN Chars(n.pre) ELSE Chars(n.pre) \o <<95>> \o Stamp(n.ts)

\* Python's str ordering: lexicographic by code point, a proper prefix first.
RECURSIVE StrLess(_, _)
StrLess(a, b) ==
    IF b = <<>> THEN FALSE
    ELSE IF a = <<>> THEN TRUE
    ELSE IF Head(a) # Head(b) THEN Head(a) < Head(b)
    ELSE StrLess(Tail(a), Tail(b))

\* sorted(names, reverse=True)
RECURSIVE SortedDesc(_)
SortedDesc(S) ==
    IF S = {} THEN <<>>
    ELSE LET m == CHOOSE x \in S : \A y \in S \ {x} : StrLess(NameStr(y), NameStr(x))
         IN <<m>> \o SortedDesc(S \ {m})

-----------------------------------------------------------------------------
(* JSON text *)

\* The order json.dump writes the keys in.
KeyOrder ==
    <<"id", "title", "description", "priority", "status", "created_at",
      "updated_at", "analysis", "progress_history", "timestamp",
      "files_changed", "error", "data_snapshot", "last_commit",
      "generated_at", "format", "content", "metadata", "last_updated">>

\* json.dump(data, f): the key/value pairs in order, then the closing brace.
\* A file whose text was cut before the closing brace is not valid JSON.
Dump(data) ==
    LET keys == SelectSeq(KeyOrder, LAMBDA k : k \in DOMAIN data)
    IN [pairs  |-> [i \in 1..Len(keys) |-> <<keys[i], data[keys[i]]>>],
        closed |-> TRUE]

\* The text of a file just opened with mode 'w'.
EmptyText == [pairs |-> <<>>, closed |-> FALSE]

ValidJson(text) == text.closed

\* json.load(f) of a valid text: the object with the pairs' keys (a key
\* written twice keeps its last value).
Parse(text) ==
    LET ps == text.pairs
        keys == {ps[i][1] : i \in DOMAIN ps}
        at(k) == CHOOSE i \in DOMAIN ps :
                    /\ ps[i][1] = k
                    /\ \A j \in DOMAIN ps : ps[j][1] = k => j <= i
    IN [k \in keys |-> ps[at(k)][2]]

-----------------------------------------------------------------------------
(* ProjectDataStore *)

FixedCategories == {"tasks", "progress", "metrics", "analyses"}
Categories == FixedCategories \cup {"reports"}

\* _get_filepath
GetFilepath(category, name) == <<category, name>>

Exists(fs, path) == path \in DOMAIN fs

\* As Stamped, a last_updated the data already carries left as it is.
StampedIfMissing(data, t) ==
    [k \in DOMAIN data \cup {"last_updated"} |->
        IF k \in DOMAIN data THEN data[k] ELSE t]

\* data['last_updated'] = datetime.utcnow().isoformat()
Stamped(data, t) ==
    [k \in DOMAIN data \cup {"last_updated"} |->
        IF k = "last_updated" THEN t ELSE data[k]]

\* filepath.open('w') then json.dump: the file is created or truncated and
\* the stamped data written in full.
WriteFile(fs, path, data) ==
    [p \in DOMAIN fs \cup {path} |-> IF p = path THEN Dump(data) ELSE fs[p]]

\* save_data: the outcome and the files afterwards.  open('w') raises
\* FileNotFoundError when the category directory does not exist.
SaveData(fs, ds, category, name, data, t) ==
    IF category \notin ds
    THEN [outcome |-> "io-error", files |-> fs]
    ELSE [outcome |-> "ok",
          files   |-> WriteFile(fs, GetFilepath(category, name), Stamped(data, t))]

\* As LoadOutcome, the file opened without the test that it exists.
LoadOutcomeUnchecked(fs, category, name) ==
    IF ~Exists(fs, GetFilepath(category, name)) THEN "io-error"
    ELSE IF ~ValidJson(fs[GetFilepath(category, name)]) THEN "parse-error"
    ELSE "ok"

\* load_data: None when the file does not exist, else json.load; a file
\* that is not valid JSON raises.
LoadOutcome(fs, category, name) ==
    IF ~Exists(fs, GetFilepath(category, name)) THEN "absent"
    ELSE IF ~ValidJson(fs[GetFilepath(category, name)]) THEN "parse-error"
    ELSE "ok"

LoadData(fs, category, name) ==
    IF LoadOutcome(fs, category, name) = "ok"
    THEN Some(Parse(fs[GetFilepath(category, name)]))
    ELSE None

\* list_files: the stems of the category's .json files, [] without directory.
ListFiles(fs, ds, category) ==
    IF category \notin ds THEN {}
    ELSE {p[2] : p \in {q \in DOMAIN fs : q[1] = category}}

-----------------------------------------------------------------------------
(* The record of the last call *)

NoCall ==
    [op |-> "init", category |-> "", name |-> Latest, data |-> [x \in {} |-> 0],
     status |-> "", notes |-> None, outcome |-> "ok", calls |-> 0, start |-> 0]

Call(op, category, name, data, status, notes, outcome, calls, start) ==
    [op |-> op, category |-> category, name |-> name, data |-> data,
     status |-> status, notes |-> notes, outcome |-> outcome, calls |-> calls,
     start |-> start]

\* raise RuntimeError(...) from err: a failed call also carries the error it
\* wraps, the collaborator's or the store's ("" when the call succeeds).
Caused(call, cause) ==
    [k \in DOMAIN call \cup {"cause"} |-> IF k = "cause" THEN cause ELSE call[k]]

\* The call with the number of the collaborator call that was to fail (0:
\* none; a number beyond the calls made: none either).
Failing(call, failing) ==
    [k \in DOMAIN call \cup {"failing"} |->
        IF k = "failing" THEN failing ELSE call[k]]

-----------------------------------------------------------------------------
(* Initial state: what ProjectDataStore.__init__ leaves *)

Init ==
    /\ dirs = FixedCategories
    /\ files = <<>>
    /\ now = 0
    /\ last = NoCall
    /\ order = <<>>
    /\ procs = <<>>
    /\ wr = None
    /\ nops = 0

\* The clock advances.
Tick ==
    /\ now < MaxTime
    /\ now' = now + 1
    /\ UNCHANGED <<dirs, files, last, order, procs, wr, nops>>

-----------------------------------------------------------------------------
(* The store's own interface, called directly *)

\* The records a direct caller saves.
StoreRecords ==
    {[title |-> "A"],
     [priority |-> "high"],
     [title |-> "B", last_updated |-> 0]}

StoreNames == {Latest}

\* As EnsureDirectories, the four directories made anew, empty.
EnsureDirectoriesAnew ==
    /\ nops < MaxStoreOps
    /\ dirs' = dirs \cup FixedCategories
    /\ files' = [p \in {q \in DOMAIN files : q[1] \notin FixedCategories} |-> files[p]]
    /\ last' = Call("ensure_directories", "", Latest, [x \in {} |-> 0], "", None,
                    "ok", 0, now)
    /\ nops' = nops + 1
    /\ UNCHANGED <<now, order, procs, wr>>

\* ensure_directories: mkdir(parents=True, exist_ok=True) of the four.
EnsureDirectories ==
    /\ nops < MaxStoreOps
    /\ dirs' = dirs \cup FixedCategories
    /\ last' = Call("ensure_directories", "", Latest, [x \in {} |-> 0], "", None,
                    "ok", 0, now)
    /\ nops' = nops + 1
    /\ UNCHANGED <<files, now, order, procs, wr>>

\* save_data(category, name, data), the clock advancing or not before the
\* stamp is taken.
StoreSave ==
    /\ nops < MaxStoreOps
    /\ \E category \in Categories, name \in StoreNames, data \in StoreRecords,
          t \in now..(now + 1) :
        /\ t <= MaxTime
        /\ LET r == SaveData(files, dirs, category, name, data, t)
           IN /\ files' = r.files
              /\ last' = Call("save_data", category, name, data, "", None,
                              r.outcome, 0, now)
        /\ now' = t
    /\ nops' = nops + 1
    /\ UNCHANGED <<dirs, order, procs, wr>>

NextStore == Tick \/ EnsureDirectories \/ StoreSave

SpecStore == Init /\ [][NextStore]_vars

-----------------------------------------------------------------------------
(* The external collaborator (openai.ChatCompletion.acreate) *)

\* The text of a response; a call either returns it or raises.
Narrative == "narrative"

\* Awaiting a call suspends the caller: the clock advances or not meanwhile.
AfterAwait(t) == {u \in t..(t + 1) : u <= MaxTime}

-----------------------------------------------------------------------------
(* TaskManager *)

TaskName(t) == Name("task", SecOf(t))

\* analyze_task: the analysis, stamped after the await.
AnalyzeTask(t) == [analysis |-> Narrative, timestamp |-> t]

\* create_task saving the task before its analysis is there.
CreateTaskOpSavesFirst(fs, ds, t0, t1, title, description, priority, ok) ==
    LET task_id == TaskName(t0)
        partial == [id |-> task_id, title |-> title, description |-> description,
                    priority |-> priority, status |-> "created",
                    created_at |-> t0, updated_at |-> t0]
        first == SaveData(fs, ds, "tasks", task_id, partial, t0)
        task_data == [k \in DOMAIN partial \cup {"analysis"} |->
                         IF k = "analysis" THEN AnalyzeTask(t1) ELSE partial[k]]
        saved == SaveData(first.files, ds, "tasks", task_id, task_data, t1)
    IN IF ~ok THEN [outcome |-> "external-service-error", files |-> first.files,
                    id |-> task_id]
       ELSE [outcome |-> saved.outcome, files |-> saved.files, id |-> task_id]

\* create_task deriving the id it stores after the await.
CreateTaskOpLateId(fs, ds, t0, t1, title, description, priority, ok) ==
    LET task_id == TaskName(t0)
        task_data == [id |-> TaskName(t1), title |-> title,
                      description |-> description, priority |-> priority,
                      status |-> "created", created_at |-> t1, updated_at |-> t1,
                      analysis |-> AnalyzeTask(t1)]
        saved == SaveData(fs, ds, "tasks", task_id, task_data, t1)
    IN IF ~ok THEN [outcome |-> "external-service-error", files |-> fs,
                    id |-> task_id]
       ELSE [outcome |-> saved.outcome, files |-> saved.files, id |-> task_id]

\* create_task, called at t0, the collaborator answering (ok) or failing at
\* t1: the id is taken before the await, the record built and saved after.
CreateTaskOp(fs, ds, t0, t1, title, description, priority, ok) ==
    LET task_id == TaskName(t0)
        task_data == [id          |-> task_id,
                      title       |-> title,
                      description |-> description,
                      priority    |-> priority,
                      status      |-> "created",
                      created_at  |-> t1,
                      updated_at  |-> t1,
                      analysis    |-> AnalyzeTask(t1)]
        saved == SaveData(fs, ds, "tasks", task_id, task_data, t1)
    IN IF ~ok
       THEN [outcome |-> "external-service-error", files |-> fs, id |-> task_id]
       ELSE [outcome |-> saved.outcome, files |-> saved.files, id |-> task_id]

\* As AppendHistory, the new entry put first.
AppendHistoryFirst(task, t, status, notes) ==
    LET old == IF "progress_history" \in DOMAIN task
               THEN task.progress_history ELSE <<>>
        entry == [timestamp |-> t, status |-> status, notes |-> notes]
    IN [k \in DOMAIN task \cup {"progress_history"} |->
          IF k = "progress_history" THEN <<entry>> \o old ELSE task[k]]

\* task["progress_history"].append(...), the list created when missing.
AppendHistory(task, t, status, notes) ==
    LET old == IF "progress_history" \in DOMAIN task
               THEN task.progress_history ELSE <<>>
        entry == [timestamp |-> t, status |-> status, notes |-> notes]
    IN [k \in DOMAIN task \cup {"progress_history"} |->
          IF k = "progress_history" THEN Append(old, entry) ELSE task[k]]

\* As UpdatedTask, updated_at left as it was.
UpdatedTaskKeepsTime(task, t, status, notes) ==
    LET t1 == [task EXCEPT !.status = status]
    IN IF Truthy(notes) THEN AppendHistory(t1, t, status, notes[1]) ELSE t1

\* As UpdatedTask, the history replaced by the new entry.
UpdatedTaskOverwritesHistory(task, t, status, notes) ==
    LET t1 == [task EXCEPT !.status = status, !.updated_at = t]
        entry == [timestamp |-> t, status |-> status, notes |-> notes[1]]
    IN IF Truthy(notes)
       THEN [k \in DOMAIN t1 \cup {"progress_history"} |->
               IF k = "progress_history" THEN <<entry>> ELSE t1[k]]
       ELSE t1

\* As UpdatedTask, created_at set along with updated_at.
UpdatedTaskRestamped(task, t, status, notes) ==
    LET t1 == [task EXCEPT !.status = status, !.updated_at = t,
                           !.created_at = t + 1]
    IN IF Truthy(notes) THEN AppendHistory(t1, t, status, notes[1]) ELSE t1

\* The body of update_task_status between the load and the save.
UpdatedTask(task, t, status, notes) ==
    LET t1 == [task EXCEPT !.status = status, !.updated_at = t]
    IN IF Truthy(notes) THEN AppendHistory(t1, t, status, notes[1]) ELSE t1

\* As UpdateTaskStatusOp, a missing task created instead of refused.
UpdateTaskStatusUpsert(fs, ds, t, task_id, status, notes) ==
    LET loaded == LoadData(fs, "tasks", task_id)
        task == IF loaded = None
                THEN [id |-> task_id, status |-> status, updated_at |-> t]
                ELSE loaded[1]
    IN SaveData(fs, ds, "tasks", task_id, UpdatedTask(task, t, status, notes), t)

\* update_task_status at time t.
UpdateTaskStatusOp(fs, ds, t, task_id, status, notes) ==
    LET loaded == LoadData(fs, "tasks", task_id)
    IN IF LoadOutcome(fs, "tasks", task_id) = "parse-error"
       THEN [outcome |-> "parse-error", files |-> fs]
       ELSE IF loaded = None
       THEN [outcome |-> "not-found", files |-> fs]
       ELSE SaveData(fs, ds, "tasks", task_id,
                     UpdatedTask(loaded[1], t, status, notes), t)

\* get_task
GetTask(fs, task_id) == LoadData(fs, "tasks", task_id)

\* The ids of list_tasks(): every listed task that loads.
TaskIds(fs, ds) == ListFiles(fs, ds, "tasks")

\* glob yields a directory's files in an order of its own: some fixed order
\* of the names.
RECURSIVE Listed(_)
Listed(S) ==
    IF S = {} THEN <<>>
    ELSE LET n == CHOOSE x \in S : TRUE IN <<n>> \o Listed(S \ {n})

\* task.get('status')
StatusOf(task) == IF "status" \in DOMAIN task THEN Some(task.status) ELSE None

\* list_tasks: the listed tasks that load and pass the filter, in the order
\* listed; `not status` lets None and "" through as no filter.
ListTasks(fs, ds, status) ==
    LET ids == Listed(ListFiles(fs, ds, "tasks"))
        keep(task_id) ==
            LET task == GetTask(fs, task_id)
            IN /\ task # None
               /\ DOMAIN task[1] # {}
               /\ (~Truthy(status) \/ StatusOf(task[1]) = status)
        kept == SelectSeq(ids, keep)
    IN [i \in 1..Len(kept) |-> GetTask(fs, kept[i])[1]]

-----------------------------------------------------------------------------
(* Calls of the task manager *)

Titles == {"Fix bug"}
Priorities == {"medium"}
AnyTitles == {"Fix bug", "Write docs"}
AnyPriorities == {"medium", "low"}
Statuses == {"in_progress", "completed", "done"}
NotesGiven == {None, Some(""), Some("blocked")}
AllTaskNames == {Name("task", s) : s \in 0..SecOf(MaxTime)}

\* A call of create_task with a title and a priority of the given sets.
CreateTaskWith(titles, priorities) ==
    /\ nops < MaxOps
    /\ \E title \in titles, priority \in priorities, ok \in BOOLEAN,
          t1 \in AfterAwait(now) :
        LET r == CreateTaskOp(files, dirs, now, t1, title, "desc", priority, ok)
        IN /\ files' = r.files
           /\ now' = t1
           /\ last' = Caused(Call("create_task", "tasks", r.id,
                                  [title |-> title, description |-> "desc",
                                   priority |-> priority], "", None,
                                  r.outcome, 1, now),
                             IF ok THEN "" ELSE "external-service-error")
    /\ nops' = nops + 1
    /\ UNCHANGED <<dirs, order, procs, wr>>

UpdateTaskStatus ==
    /\ nops < MaxOps
    /\ \E task_id \in AllTaskNames, status \in Statuses, notes \in NotesGiven :
        LET r == UpdateTaskStatusOp(files, dirs, now, task_id, status, notes)
        IN /\ files' = r.files
           /\ last' = Call("update_task_status", "tasks", task_id, NoData,
                           status, notes, r.outcome, 0, now)
    /\ nops' = nops + 1
    /\ UNCHANGED <<dirs, now, order, procs, wr>>

CreateTask == CreateTaskWith(Titles, Priorities)

\* TaskManager on its own: the callers' titles and priorities vary.
CreateAnyTask == CreateTaskWith(AnyTitles, AnyPriorities)

NextTasks == Tick \/ CreateAnyTask \/ UpdateTaskStatus

SpecTasks == Init /\ [][NextTasks]_vars

-----------------------------------------------------------------------------
(* ProjectDataStore: analyses *)

\* As AnalysisName, the name not following the clock.
AnalysisNameFixed(t) == Name("analysis", 0)

AnalysisName(t) == Name("analysis", SecOf(t))
RiskName(t) == Name("risk_analysis", SecOf(t))
ReportName(t) == Name("report", SecOf(t))

\* save_analysis at time t.
SaveAnalysis(fs, ds, analysis_data, t) ==
    SaveData(fs, ds, "analyses", AnalysisName(t), analysis_data, t)

\* get_latest_analysis: the first of the names sorted in reverse, loaded.
GetLatestAnalysis(fs, ds) ==
    LET analyses == SortedDesc(ListFiles(fs, ds, "analyses"))
    IN IF analyses = <<>> THEN None ELSE LoadData(fs, "analyses", analyses[1])

\* The history of saves under analyses with name n saved now.
Saved(ord, n) == Append(SelectSeq(ord, LAMBDA m : m # n), n)

-----------------------------------------------------------------------------
(* TaskManager.generate_task_summary *)

SummaryStatuses == {"created", "in_progress", "completed"}

\* As StatusBreakdown, keyed by the statuses the tasks have.
StatusBreakdownOfSeen(tasks) ==
    [status \in {tasks[i].status : i \in DOMAIN tasks} |->
        Cardinality({i \in DOMAIN tasks : StatusOf(tasks[i]) = Some(status)})]

\* {status: len([t for t in tasks if t.get('status') == status]) for ...}
StatusBreakdown(tasks) ==
    [status \in SummaryStatuses |->
        Cardinality({i \in DOMAIN tasks : StatusOf(tasks[i]) = Some(status)})]

NoTasksFound == [summary |-> "No tasks found"]

\* As GenerateTaskSummaryOp, without the early return.
GenerateTaskSummaryUnguarded(fs, ds, ok, t) ==
    LET tasks == ListTasks(fs, ds, None)
    IN IF ~ok
       THEN [outcome |-> "external-service-error", calls |-> 1, result |-> NoData]
       ELSE [outcome |-> "ok", calls |-> 1,
             result  |-> [summary          |-> Narrative,
                          task_count       |-> Len(tasks),
                          status_breakdown |-> StatusBreakdown(tasks),
                          generated_at     |-> t]]

\* generate_task_summary, the collaborator answering (ok) or failing, t the
\* clock after the await: the sentinel with no call made when there are no
\* tasks, else one call and the summary, or the failure wrapped.
GenerateTaskSummaryOp(fs, ds, ok, t) ==
    LET tasks == ListTasks(fs, ds, None)
    IN IF tasks = <<>>
       THEN [outcome |-> "sentinel", calls |-> 0, result |-> NoTasksFound]
       ELSE IF ~ok
       THEN [outcome |-> "external-service-error", calls |-> 1, result |-> NoData]
       ELSE [outcome |-> "ok", calls |-> 1,
             result  |-> [summary          |-> Narrative,
                          task_count       |-> Len(tasks),
                          status_breakdown |-> StatusBreakdown(tasks),
                          generated_at     |-> t]]

\* generate_task_summary as far as the collaborator goes: "ok" with one call
\* made, "sentinel" with none when there are no tasks.
TaskSummaryOp(fs, ds, ok) ==
    IF TaskIds(fs, ds) = {} THEN [outcome |-> "sentinel", calls |-> 0]
    ELSE IF ok THEN [outcome |-> "ok", calls |-> 1]
    ELSE [outcome |-> "external-service-error", calls |-> 1]

-----------------------------------------------------------------------------
(* ProjectManager *)

\* len(analysis["files_changed"]) > 5
MajorChangeFiles == 5

\* As GetStatus, with "success" as the default: analysis.get("status", "success").
GetStatusDefault(analysis) ==
    IF "status" \in DOMAIN analysis THEN Some(analysis.status) ELSE Some("success")

\* analysis.get("status")
GetStatus(analysis) ==
    IF "status" \in DOMAIN analysis THEN Some(analysis.status) ELSE None

\* get_project_status(detailed=True): the collaborator is called by
\* generate_task_summary, and its failure propagates.
DetailedStatusOp(fs, ds, ok) == TaskSummaryOp(fs, ds, ok)

\* As AnalyzeRisksOp, without the except clause: the errors as they are raised.
AnalyzeRisksOpUnwrapped(fs, ds, failing, t) ==
    LET status == DetailedStatusOp(fs, ds, failing # 1)
        tasks  == TaskIds(fs, ds)
        calls  == status.calls + 1
        result == [timestamp     |-> t,
                   analysis      |-> Narrative,
                   data_snapshot |-> [task_count     |-> Cardinality(tasks),
                                      status_summary |-> Cardinality(tasks)]]
        saved  == SaveData(fs, ds, "analyses", RiskName(t), result, t)
    IN IF status.outcome = "external-service-error"
       THEN [outcome |-> status.outcome, files |-> fs, calls |-> status.calls,
             saved |-> None, cause |-> status.outcome,
             result |-> None]
       ELSE IF failing = calls
       THEN [outcome |-> "external-service-error", files |-> fs, calls |-> calls,
             saved |-> None, cause |-> "external-service-error",
             result |-> None]
       ELSE IF saved.outcome # "ok"
       THEN [outcome |-> saved.outcome, files |-> fs, calls |-> calls,
             saved |-> None, cause |-> saved.outcome,
             result |-> None]
       ELSE [outcome |-> "ok", files |-> saved.files, calls |-> calls,
             saved |-> Some(RiskName(t)), cause |-> "",
             result |-> Some(Stamped(result, t))]

\* As AnalyzeRisksOp, the result returned without being saved.
AnalyzeRisksOpUnsaved(fs, ds, failing, t) ==
    LET status == DetailedStatusOp(fs, ds, failing # 1)
        tasks  == TaskIds(fs, ds)
        calls  == status.calls + 1
        result == [timestamp     |-> t,
                   analysis      |-> Narrative,
                   data_snapshot |-> [task_count     |-> Cardinality(tasks),
                                      status_summary |-> Cardinality(tasks)]]
    IN IF status.outcome = "external-service-error"
       THEN [outcome |-> "analysis-failed", files |-> fs, calls |-> status.calls,
             saved |-> None, cause |-> status.outcome,
             result |-> None]
       ELSE IF failing = calls
       THEN [outcome |-> "analysis-failed", files |-> fs, calls |-> calls,
             saved |-> None, cause |-> "external-service-error",
             result |-> None]
       ELSE [outcome |-> "ok", files |-> fs, calls |-> calls,
             saved |-> Some(RiskName(t)), cause |-> "",
             result |-> Some(Stamped(result, t))]

\* analyze_risks.  The collaborator's calls are numbered as they are made and
\* call number failing fails (0: none does); t is the clock after the awaits.
AnalyzeRisksOp(fs, ds, failing, t) ==
    LET status == DetailedStatusOp(fs, ds, failing # 1)
        tasks  == TaskIds(fs, ds)
        calls  == status.calls + 1
        result == [timestamp     |-> t,
                   analysis      |-> Narrative,
                   data_snapshot |-> [task_count     |-> Cardinality(tasks),
                                      status_summary |-> Cardinality(tasks)]]
        saved  == SaveData(fs, ds, "analyses", RiskName(t), result, t)
    IN IF status.outcome = "external-service-error"
       THEN [outcome |-> "analysis-failed", files |-> fs, calls |-> status.calls,
             saved |-> None, cause |-> status.outcome,
             result |-> None]
       ELSE IF failing = calls
       THEN [outcome |-> "analysis-failed", files |-> fs, calls |-> calls,
             saved |-> None, cause |-> "external-service-error",
             result |-> None]
       ELSE IF saved.outcome # "ok"
       THEN [outcome |-> "analysis-failed", files |-> fs, calls |-> calls,
             saved |-> None, cause |-> saved.outcome,
             result |-> None]
       ELSE [outcome |-> "ok", files |-> saved.files, calls |-> calls,
             saved |-> Some(RiskName(t)), cause |-> "",
             result |-> Some(Stamped(result, t))]

\* risks.get("analysis", "").split("\n") of a response of one line.
SplitLines(text) == <<text>>

\* generate_report: t is the clock when the risk analysis is saved, t2 when
\* the report is.
GenerateReportOp(fs, ds, failing, t, t2, report_format) ==
    LET status == DetailedStatusOp(fs, ds, failing # 1)
        risks  == AnalyzeRisksOp(fs, ds,
                      IF failing > status.calls THEN failing - status.calls ELSE 0, t)
        calls  == status.calls + risks.calls + 1
        tasks  == TaskIds(risks.files, ds)
        report == [format       |-> report_format,
                   content      |-> Narrative,
                   generated_at |-> t2,
                   metadata     |-> [task_count |-> Cardinality(tasks),
                                     risk_count |-> Len(SplitLines(Narrative))]]
        saved  == SaveData(risks.files, ds, "reports", ReportName(t2), report, t2)
    IN IF status.outcome = "external-service-error"
       THEN [outcome |-> "report-failed", files |-> fs, calls |-> status.calls,
             saved |-> None, report |-> None, cause |-> status.outcome]
       ELSE IF risks.outcome # "ok"
       THEN [outcome |-> "report-failed", files |-> risks.files,
             calls |-> status.calls + risks.calls, saved |-> None, report |-> None,
             cause |-> risks.cause]
       ELSE IF failing = calls
       THEN [outcome |-> "report-failed", files |-> risks.files, calls |-> calls,
             saved |-> risks.saved, report |-> None,
             cause |-> "external-service-error"]
       ELSE IF saved.outcome # "ok"
       THEN [outcome |-> "report-failed", files |-> risks.files, calls |-> calls,
             saved |-> risks.saved, report |-> None, cause |-> saved.outcome]
       ELSE [outcome |-> "ok", files |-> saved.files, calls |-> calls,
             saved |-> risks.saved, report |-> Some(report), cause |-> ""]

\* The metrics record process_commit_analysis builds.
CommitMetrics(analysis, t) ==
    [last_commit  |-> [timestamp     |-> analysis.timestamp,
                       files_changed |-> Len(analysis.files_changed),
                       analysis      |-> analysis.analysis],
     generated_at |-> t]

\* As ProcessCommitAnalysisOp, the review task created before anything is
\* saved.
ProcessCommitAnalysisOpTaskFirst(fs, ds, t0, t1, analysis, ok) ==
    LET major   == Len(analysis.files_changed) > MajorChangeFiles
        task    == CreateTaskOp(fs, ds, t0, t1,
                                "Review Major Code Changes", "desc", "high", ok)
        before  == IF major THEN task.files ELSE fs
        stored  == SaveAnalysis(before, ds, analysis, t0)
        metrics == SaveData(stored.files, ds, "metrics", Latest,
                            CommitMetrics(analysis, t0), t0)
    IN IF GetStatus(analysis) # Some("success")
       THEN [outcome |-> "ok", files |-> fs, calls |-> 0, saved |-> None, now |-> t0]
       ELSE IF major /\ task.outcome # "ok"
       THEN [outcome |-> task.outcome, files |-> fs, calls |-> 1,
             saved |-> None, now |-> t1]
       ELSE IF stored.outcome # "ok"
       THEN [outcome |-> stored.outcome, files |-> before,
             calls |-> IF major THEN 1 ELSE 0, saved |-> None, now |-> t1]
       ELSE [outcome |-> metrics.outcome, files |-> metrics.files,
             calls |-> IF major THEN 1 ELSE 0,
             saved |-> Some(AnalysisName(t0)), now |-> t1]

\* process_commit_analysis called at t0; the collaborator, when create_task
\* calls it, answers (ok) or fails at t1.
ProcessCommitAnalysisOp(fs, ds, t0, t1, analysis, ok) ==
    LET stored  == SaveAnalysis(fs, ds, analysis, t0)
        metrics == SaveData(stored.files, ds, "metrics", Latest,
                            CommitMetrics(analysis, t0), t0)
        task    == CreateTaskOp(metrics.files, ds, t0, t1,
                                "Review Major Code Changes", "desc", "high", ok)
    IN IF GetStatus(analysis) # Some("success")
       THEN [outcome |-> "ok", files |-> fs, calls |-> 0, saved |-> None, now |-> t0]
       ELSE IF stored.outcome # "ok"
       THEN [outcome |-> stored.outcome, files |-> fs, calls |-> 0,
             saved |-> None, now |-> t0]
       ELSE IF metrics.outcome # "ok"
       THEN [outcome |-> metrics.outcome, files |-> stored.files, calls |-> 0,
             saved |-> Some(AnalysisName(t0)), now |-> t0]
       ELSE IF Len(analysis.files_changed) > MajorChangeFiles
       THEN [outcome |-> task.outcome, files |-> task.files, calls |-> 1,
             saved |-> Some(AnalysisName(t0)), now |-> t1]
       ELSE [outcome |-> "ok", files |-> metrics.files, calls |-> 0,
             saved |-> Some(AnalysisName(t0)), now |-> t0]

-----------------------------------------------------------------------------
(* Calls of the project manager *)

FilesChanged(n) == [i \in 1..n |-> "f.py"]

\* What the pre-commit hook's analyze_changes returns, and a dict without
\* status.
CommitAnalyses ==
    {[status |-> "success", files_changed |-> FilesChanged(n),
      analysis |-> "diff", timestamp |-> 0] : n \in {MajorChangeFiles, MajorChangeFiles + 1}}
    \cup {[status |-> "error", files_changed |-> FilesChanged(MajorChangeFiles + 1),
           analysis |-> "diff", timestamp |-> 0],
          [files_changed |-> FilesChanged(MajorChangeFiles + 1),
           analysis |-> "diff", timestamp |-> 0]}

ProcessCommitAnalysis ==
    /\ nops < MaxOps
    /\ \E analysis \in CommitAnalyses, ok \in BOOLEAN, t1 \in AfterAwait(now) :
        LET r == ProcessCommitAnalysisOp(files, dirs, now, t1, analysis, ok)
        IN /\ files' = r.files
           /\ now' = r.now
           /\ order' = IF r.saved = None THEN order ELSE Saved(order, r.saved[1])
           /\ last' = Call("process_commit_analysis", "analyses",
                           IF r.saved = None THEN Latest ELSE r.saved[1],
                           analysis, "", None, r.outcome, r.calls, now)
    /\ nops' = nops + 1
    /\ UNCHANGED <<dirs, procs, wr>>

AnalyzeRisks ==
    /\ nops < MaxOps
    /\ \E failing \in 0..2, t \in AfterAwait(now) :
        LET r == AnalyzeRisksOp(files, dirs, failing, t)
        IN /\ files' = r.files
           /\ now' = t
           /\ order' = IF r.saved = None THEN order ELSE Saved(order, r.saved[1])
           /\ last' = Failing(Caused(Call("analyze_risks", "analyses",
                                  IF r.saved = None THEN Latest ELSE r.saved[1],
                                  IF r.result = None THEN NoData ELSE r.result[1],
                                  "", None, r.outcome, r.calls, now),
                             r.cause), failing)
    /\ nops' = nops + 1
    /\ UNCHANGED <<dirs, procs, wr>>

GenerateReport ==
    /\ nops < MaxOps
    /\ \E failing \in 0..4, t \in AfterAwait(now) :
        \E t2 \in AfterAwait(t) :
        LET r == GenerateReportOp(files, dirs, failing, t, t2, "markdown")
        IN /\ files' = r.files
           /\ now' = IF r.report = None /\ r.saved = None THEN t ELSE t2
           /\ order' = IF r.saved = None THEN order ELSE Saved(order, r.saved[1])
           /\ last' = Caused(Call("generate_report", "reports",
                                  IF r.saved = None THEN Latest ELSE r.saved[1],
                                  IF r.report = None THEN NoData ELSE r.report[1],
                                  "", None, r.outcome, r.calls, now),
                             r.cause)
    /\ nops' = nops + 1
    /\ UNCHANGED <<dirs, procs, wr>>

Next ==
    \/ Tick
    \/ CreateTask
    \/ UpdateTaskStatus
    \/ ProcessCommitAnalysis
    \/ AnalyzeRisks
    \/ GenerateReport

Spec == Init /\ [][Next]_vars

-----------------------------------------------------------------------------
(* save_data step by step: open('w'), json.dump's writes, close.  The     *)
(* caller may be interrupted, or json.dump may raise, between any two.    *)

\* with filepath.open('w'): the file is created or truncated to nothing.
SaveOpen ==
    /\ wr = None
    /\ nops < MaxCrashOps
    /\ \E category \in Categories, name \in StoreNames, data \in StoreRecords :
        LET path == GetFilepath(category, name)
        IN IF category \notin dirs
           THEN /\ last' = Call("save_data", category, name, data, "", None,
                                "io-error", 0, now)
                /\ UNCHANGED <<files, wr>>
           ELSE /\ files' = [p \in DOMAIN files \cup {path} |->
                                IF p = path THEN EmptyText ELSE files[p]]
                /\ wr' = Some([path |-> path,
                               text |-> Dump(Stamped(data, now)),
                               prev |-> IF Exists(files, path)
                                        THEN Some(files[path]) ELSE None])
                /\ last' = Call("save_data", category, name, data, "", None,
                                "writing", 0, now)
    /\ nops' = nops + 1
    /\ UNCHANGED <<dirs, now, order, procs>>

\* json.dump writes the next key/value pair.
SaveWrite ==
    /\ wr # None
    /\ LET w == wr[1]
           n == Len(files[w.path].pairs)
       IN /\ n < Len(w.text.pairs)
          /\ files' = [files EXCEPT ![w.path].pairs = Append(@, w.text.pairs[n + 1])]
    /\ UNCHANGED <<dirs, now, last, order, procs, wr, nops>>

\* json.dump writes the closing brace and the with block closes the file.
SaveClose ==
    /\ wr # None
    /\ LET w == wr[1]
       IN /\ Len(files[w.path].pairs) = Len(w.text.pairs)
          /\ files' = [files EXCEPT ![w.path].closed = TRUE]
          /\ last' = [last EXCEPT !.outcome = "ok"]
    /\ wr' = None
    /\ UNCHANGED <<dirs, now, order, procs, nops>>

\* The save ends early: the process is stopped, or json.dump raises on a
\* value it cannot serialize.  What was written stays.
SaveInterrupt ==
    /\ wr # None
    /\ wr' = None
    /\ last' = [last EXCEPT !.outcome = "interrupted"]
    /\ UNCHANGED <<dirs, files, now, order, procs, nops>>

NextCrash == Tick \/ SaveOpen \/ SaveWrite \/ SaveClose \/ SaveInterrupt

SpecCrash == Init /\ [][NextCrash]_vars

-----------------------------------------------------------------------------
(* update_task_status called by two callers at once.  Nothing locks the   *)
(* file: a call is a load, and later a save of what it loaded, changed.   *)

Callers == {1, 2}

\* What each caller passes.
CallerNotes(p) == IF p = 1 THEN Some("first") ELSE Some("second")
CallerStatuses == {"in_progress", "completed"}

\* The number of loads and saves made so far.
Events == Cardinality(DOMAIN procs)
          + Cardinality({p \in DOMAIN procs : procs[p].pc = "done"})

\* task = self.data_store.load_task(task_id); raise if not task
UpdLoad(p) ==
    /\ p \notin DOMAIN procs
    /\ \E task_id \in AllTaskNames, status \in CallerStatuses :
        LET loaded == LoadData(files, "tasks", task_id)
            me == [pc      |-> IF loaded = None THEN "done" ELSE "loaded",
                   outcome |-> IF loaded = None THEN "not-found" ELSE "running",
                   task_id |-> task_id,
                   status  |-> status,
                   notes   |-> CallerNotes(p),
                   task    |-> loaded,
                   loadAt  |-> Events + 1,
                   saveAt  |-> IF loaded = None THEN Events + 1 ELSE 0]
        IN procs' = [q \in DOMAIN procs \cup {p} |-> IF q = p THEN me ELSE procs[q]]
    /\ UNCHANGED <<dirs, files, now, last, order, wr, nops>>

\* The rest of the call: the fields set, the history appended to, save_task.
UpdSave(p) ==
    /\ p \in DOMAIN procs
    /\ procs[p].pc = "loaded"
    /\ LET me == procs[p]
           r == SaveData(files, dirs, "tasks", me.task_id,
                         UpdatedTask(me.task[1], now, me.status, me.notes), now)
       IN /\ files' = r.files
          /\ procs' = [procs EXCEPT ![p].pc = "done", ![p].outcome = r.outcome,
                                    ![p].saveAt = Events + 1]
    /\ UNCHANGED <<dirs, now, last, order, wr, nops>>

\* The tasks are created before the two calls are made.
RaceSetup == procs = <<>> /\ CreateTask

NextRace == Tick \/ RaceSetup \/ (\E p \in Callers : UpdLoad(p) \/ UpdSave(p))

SpecRace == Init /\ [][NextRace]_vars

-----------------------------------------------------------------------------
(* The store with I/O failures: a category directory can be removed from   *)
(* under the store (the tree belongs to the file system, not to the        *)
(* process), after which open('w') in it raises until ensure_directories   *)
(* has run again.                                                          *)

RemoveDirectory ==
    /\ nops < MaxOps
    /\ \E category \in dirs :
        /\ dirs' = dirs \ {category}
        /\ files' = [p \in {q \in DOMAIN files : q[1] # category} |-> files[p]]
        /\ order' = IF category = "analyses" THEN <<>> ELSE order
        /\ last' = Call("remove_directory", category, Latest, NoData, "", None,
                        "ok", 0, now)
    /\ nops' = nops + 1
    /\ UNCHANGED <<now, procs, wr>>

\* The names asked for: some stored, some not.
LoadNames == {Latest, TaskName(0), AnalysisName(0)}

\* load_data(category, name)
StoreLoad ==
    /\ nops < MaxOps
    /\ \E category \in Categories, name \in LoadNames :
        last' = Call("load_data", category, name,
                     [result |-> LoadData(files, category, name)], "", None,
                     LoadOutcome(files, category, name), 0, now)
    /\ nops' = nops + 1
    /\ UNCHANGED <<dirs, files, now, order, procs, wr>>

\* list_files(category)
StoreList ==
    /\ nops < MaxOps
    /\ \E category \in Categories :
        last' = Call("list_files", category, Latest,
                     [names |-> Listed(ListFiles(files, dirs, category))], "",
                     None, "ok", 0, now)
    /\ nops' = nops + 1
    /\ UNCHANGED <<dirs, files, now, order, procs, wr>>

NextFaults ==
    \/ Tick
    \/ RemoveDirectory
    \/ EnsureDirectories
    \/ StoreLoad
    \/ StoreList
    \/ CreateTask
    \/ AnalyzeRisks
    \/ ProcessCommitAnalysis

SpecFaults == Init /\ [][NextFaults]_vars

-----------------------------------------------------------------------------
(* ProjectDataStore.get_project_status *)

\* [self.load_data(category, n) for n in self.list_files(category)]
LoadAll(fs, ds, category) ==
    LET names == Listed(ListFiles(fs, ds, category))
    IN [i \in 1..Len(names) |-> LoadData(fs, category, names[i])]

\* As StoreStatus, the tasks counted being those still in status "created".
StoreStatusCountsCreated(fs, ds) ==
    [tasks         |-> [count |-> Len(ListTasks(fs, ds, Some("created"))),
                        items |-> LoadAll(fs, ds, "tasks")],
     progress      |-> [latest  |-> LoadData(fs, "progress", Latest),
                        history |-> LoadAll(fs, ds, "progress")],
     metrics       |-> [latest  |-> LoadData(fs, "metrics", Latest),
                        history |-> LoadAll(fs, ds, "metrics")],
     last_analysis |-> GetLatestAnalysis(fs, ds)]

\* get_project_status of the store: the composite view.
StoreStatus(fs, ds) ==
    [tasks         |-> [count |-> Cardinality(ListFiles(fs, ds, "tasks")),
                        items |-> LoadAll(fs, ds, "tasks")],
     progress      |-> [latest  |-> LoadData(fs, "progress", Latest),
                        history |-> LoadAll(fs, ds, "progress")],
     metrics       |-> [latest  |-> LoadData(fs, "metrics", Latest),
                        history |-> LoadAll(fs, ds, "metrics")],
     last_analysis |-> GetLatestAnalysis(fs, ds)]

-----------------------------------------------------------------------------
(* The queries, on stores of up to MaxTasks tasks *)

\* The statuses the stored tasks have: "created" and what callers set.
StoredStatuses == {"created", "in_progress", "completed", "done"}

\* The second the i-th task was created in.
CreatedAt(i) == (i - 1) * TicksPerSec

\* The store after one task per second has been created and then, for a
\* status other than "created", updated to it.
RECURSIVE StoreWith(_)
StoreWith(statuses) ==
    IF statuses = <<>> THEN <<>>
    ELSE LET n       == Len(statuses)
             t       == CreatedAt(n)
             before  == StoreWith(SubSeq(statuses, 1, n - 1))
             created == CreateTaskOp(before, FixedCategories, t, t, "Fix bug",
                                     "desc", "medium", TRUE).files
         IN IF statuses[n] = "created" THEN created
            ELSE UpdateTaskStatusOp(created, FixedCategories, t, TaskName(t),
                                    statuses[n], None).files

\* What callers save besides tasks, in the order of the saves.
OtherSaves ==
    <<GetFilepath("progress", Latest), GetFilepath("metrics", Latest),
      GetFilepath("analyses", AnalysisName(0)), GetFilepath("analyses", RiskName(0))>>

OtherData(path) ==
    CASE path[1] = "progress" -> [status |-> "in_progress"]
      [] path[1] = "metrics"  -> [generated_at |-> 0]
      [] path[2].pre = "analysis" -> [status |-> "success", timestamp |-> 0]
      [] OTHER -> [analysis |-> Narrative, timestamp |-> 0]

\* The store after the first k of these saves.
RECURSIVE SavedAlso(_, _)
SavedAlso(fs, k) ==
    IF k = 0 THEN fs
    ELSE LET p == OtherSaves[k]
         IN SaveData(SavedAlso(fs, k - 1), FixedCategories, p[1], p[2],
                     OtherData(p), 0).files

InitQueries ==
    /\ dirs = FixedCategories
    /\ \E n \in 0..MaxTasks :
        \E statuses \in [1..n -> StoredStatuses], k \in 0..Len(OtherSaves) :
            /\ files = SavedAlso(StoreWith(statuses), k)
            /\ now = n * TicksPerSec
    /\ last = NoCall
    /\ order = <<>>
    /\ procs = <<>>
    /\ wr = None
    /\ nops = 0

\* The call with the collaborator's state at the time.
Served(call, ok) ==
    [k \in DOMAIN call \cup {"service"} |->
        IF k = "service" THEN (IF ok THEN "up" ELSE "down") ELSE call[k]]

Filters == {None, Some(""), Some("created"), Some("done")}

ListTasksCall ==
    /\ \E status \in Filters :
        last' = Call("list_tasks", "tasks", Latest,
                     [status |-> status, tasks |-> ListTasks(files, dirs, status)],
                     "", None, "ok", 0, now)
    /\ UNCHANGED <<dirs, files, now, order, procs, wr, nops>>

GenerateTaskSummary ==
    /\ \E ok \in BOOLEAN, t \in now..(now + 1) :
        LET r == GenerateTaskSummaryOp(files, dirs, ok, t)
        IN /\ t <= Cardinality(TaskIds(files, dirs)) * TicksPerSec + 1
           /\ now' = (IF r.calls = 0 THEN now ELSE t)
           /\ last' = Served(Call("generate_task_summary", "tasks", Latest,
                                  r.result, "", None, r.outcome, r.calls, now), ok)
    /\ UNCHANGED <<dirs, files, order, procs, wr, nops>>

GetProjectStatus ==
    /\ last' = Call("get_project_status", "", Latest, StoreStatus(files, dirs),
                    "", None, "ok", 0, now)
    /\ UNCHANGED <<dirs, files, now, order, procs, wr, nops>>

NextQueries == ListTasksCall \/ GenerateTaskSummary \/ GetProjectStatus

SpecQueries == InitQueries /\ [][NextQueries]_vars

-----------------------------------------------------------------------------
(* hooks/check_docs.py: normalize_file_content.  The files are those of    *)
(* the docs directory, a file's name its stem and suffix, its content a    *)
(* sequence of bytes.                                                      *)

LF == 10
CR == 13
Space == 32

\* The bytes a file is made of here: a letter, a space, CR and LF.
Bytes == {97, Space, CR, LF}

\* What bytes.rstrip() strips: the ASCII whitespace.
Whitespace == {9, 10, 11, 12, 13, 32}

\* content.replace(b"\r\n", b"\n"): one pass from the left, the text put in
\* not looked at again.
RECURSIVE ReplaceCrLf(_)
ReplaceCrLf(s) ==
    IF Len(s) >= 2 /\ s[1] = CR /\ s[2] = LF
    THEN <<LF>> \o ReplaceCrLf(SubSeq(s, 3, Len(s)))
    ELSE IF s = <<>> THEN <<>>
    ELSE <<s[1]>> \o ReplaceCrLf(Tail(s))

\* s.rstrip(chars)
RECURSIVE RStrip(_, _)
RStrip(s, chars) ==
    IF s # <<>> /\ s[Len(s)] \in chars
    THEN RStrip(SubSeq(s, 1, Len(s) - 1), chars)
    ELSE s

\* s.split(b"\n"): the pieces between the separators, one more than there
\* are separators.
RECURSIVE SplitLf(_)
SplitLf(s) ==
    IF \E i \in 1..Len(s) : s[i] = LF
    THEN LET i == CHOOSE j \in 1..Len(s) :
                     s[j] = LF /\ \A k \in 1..(j - 1) : s[k] # LF
         IN <<SubSeq(s, 1, i - 1)>> \o SplitLf(SubSeq(s, i + 1, Len(s)))
    ELSE <<s>>

\* b"\n".join(lines)
RECURSIVE JoinLf(_)
JoinLf(lines) ==
    IF lines = <<>> THEN <<>>
    ELSE IF Len(lines) = 1 THEN lines[1]
    ELSE lines[1] \o <<LF>> \o JoinLf(Tail(lines))

\* What normalize_file_content writes to a file that held content.
Normalized(content) ==
    LET normalized == ReplaceCrLf(content)
        pieces     == SplitLf(RStrip(normalized, {LF}))
        lines      == [i \in 1..Len(pieces) |-> RStrip(pieces[i], Whitespace)]
    IN JoinLf(lines) \o <<LF>>

NormalizedSuffixes == {".html", ".js"}

DocName(stem, suffix) == [stem |-> stem, suffix |-> suffix]

\* Every content of up to MaxLen bytes.
FileContents == UNION {[1..n -> Bytes] : n \in 0..MaxLen}

\* A docs directory with two files of the same content, one of them .html
\* or .js and one .txt.
InitDocs ==
    /\ dirs = {"docs"}
    /\ \E content \in FileContents, suffix \in NormalizedSuffixes :
          files = (GetFilepath("docs", DocName("index", suffix)) :> content)
                  @@ (GetFilepath("docs", DocName("notes", ".txt")) :> content)
    /\ now = 0
    /\ last = NoCall
    /\ order = <<>>
    /\ procs = <<>>
    /\ wr = None
    /\ nops = 0

\* normalize_file_content(Path("docs")); the files as they were are kept in
\* the record of the call.
NormalizeFileContent ==
    /\ nops < MaxNormalize
    /\ files' = [p \in DOMAIN files |->
                    IF p[2].suffix \in NormalizedSuffixes
                    THEN Normalized(files[p]) ELSE files[p]]
    /\ last' = Call("normalize_file_content", "docs", Latest, [before |-> files],
                    "", None, "ok", 0, now)
    /\ nops' = nops + 1
    /\ UNCHANGED <<dirs, now, order, procs, wr>>

NextDocs == NormalizeFileContent

SpecDocs == InitDocs /\ [][NextDocs]_vars

-----------------------------------------------------------------------------
(* hooks/update_project_tracker.py: update_tracker.  The tracker is the    *)
(* file .github/project_tracker.yaml; what it holds is either nothing (an  *)
(* empty file, which yaml.safe_load reads as None) or a mapping, kept here *)
(* as the sections it has, the project's version and the fields the hook   *)
(* fills in.                                                               *)

TrackerPath == GetFilepath(".github", DocName("project_tracker", ".yaml"))

\* TRACKER_SCHEMA's required sections, and the two more the hook adds.
RequiredSections ==
    {"project", "environment", "dependencies", "configuration_files",
     "documentation"}
Sections == RequiredSections \cup {"source_code", "tests"}

\* A version the schema's pattern accepts, and one it does not.
GoodVersion == "0.1.0"
BadVersion == "invalid.version"

EmptyTracker == [kind |-> "empty"]
Mapping(data) == [kind |-> "mapping", data |-> data]

\* default_tracker
DefaultTracker ==
    [sections |-> Sections, version |-> GoodVersion, generated |-> FALSE,
     sources |-> {}]

\* validate(instance=data, schema=TRACKER_SCHEMA)
Valid(data) ==
    /\ RequiredSections \subseteq data.sections
    /\ data.version = GoodVersion

\* The steps of update_tracker that the file system or a subprocess can
\* fail, in the order of the code.
TrackerSteps ==
    {"write_default", "read", "iterdir", "stat", "freeze", "ls_files",
     "ls_py", "getmtime", "write"}

\* The Python files git ls-files *.py can list.
PythonFiles == {{}, {"src/main.py"}}

Step(step, ok) == [step |-> step, ok |-> ok]

\* The state of a run: the data in hand, the files, the steps done so far
\* and the error raised ("": none, "invalid": ValidationError, "error": any
\* other exception).
Run(data, fs, trace, err) ==
    [data |-> data, files |-> fs, trace |-> trace, err |-> err]

\* One step that the environment can fail: it raises when it is the one to
\* fail, else the run goes on with data and fs.
Attempt(run, step, failing, data, fs) ==
    IF failing = step
    THEN Run(run.data, run.files, Append(run.trace, Step(step, FALSE)), "error")
    ELSE Run(data, fs, Append(run.trace, Step(step, TRUE)), "")

\* validate(...): ValidationError when the data does not fit the schema.
Validated(run, step) ==
    IF Valid(run.data)
    THEN Run(run.data, run.files, Append(run.trace, Step(step, TRUE)), "")
    ELSE Run(run.data, run.files, Append(run.trace, Step(step, FALSE)),
             "invalid")

\* The tracker is created with the default when missing, else read; the
\* sections configuration_files, source_code and tests are added to what
\* was read ("x not in data" raises TypeError on the None of an empty file).
Loaded(fs, failing) ==
    LET start == Run(DefaultTracker, fs, <<>>, "")
    IN IF ~Exists(fs, TrackerPath)
       THEN LET made == Attempt(start, "write_default", failing, DefaultTracker,
                                (TrackerPath :> Mapping(DefaultTracker)) @@ fs)
            IN IF made.err # "" THEN made
               ELSE Validated(made, "validate_default")
       ELSE LET read == Attempt(start, "read", failing, DefaultTracker, fs)
            IN IF read.err # "" THEN read
               ELSE IF fs[TrackerPath].kind = "empty"
               THEN Run(read.data, fs, Append(read.trace, Step("sections", FALSE)),
                        "error")
               ELSE LET data == fs[TrackerPath].data
                    IN Run([data EXCEPT !.sections =
                               @ \cup {"configuration_files", "source_code",
                                       "tests"}],
                           fs, Append(read.trace, Step("sections", TRUE)), "")

\* The documentation section is added when missing and its status taken
\* from the docs directory: generated when the directory has a file.
Documented(run, fs, ds, failing) ==
    IF run.err # "" THEN run
    ELSE LET data == [run.data EXCEPT !.sections = @ \cup {"documentation"}]
             has_files == \E p \in DOMAIN fs : p[1] = "docs"
         IN IF "docs" \notin ds
            THEN Run([data EXCEPT !.generated = FALSE], run.files, run.trace, "")
            ELSE LET listed == Attempt(run, "iterdir", failing,
                                       [data EXCEPT !.generated = has_files],
                                       run.files)
                 IN IF listed.err # "" \/ ~has_files THEN listed
                    ELSE Attempt(listed, "stat", failing, listed.data,
                                 listed.files)

\* The subprocesses: uv pip freeze, git ls-files, git ls-files *.py, then
\* the modification time of each source and test file.
Collected(run, failing, python_files) ==
    IF run.err # "" THEN run
    ELSE LET frozen == Attempt(run, "freeze", failing, run.data, run.files)
             structure == Attempt(frozen, "ls_files", failing, frozen.data,
                                  frozen.files)
             python == Attempt(structure, "ls_py", failing, structure.data,
                               structure.files)
         IN IF frozen.err # "" THEN frozen
            ELSE IF structure.err # "" THEN structure
            ELSE IF python.err # "" THEN python
            ELSE IF python_files = {}
            THEN Run([python.data EXCEPT !.sources = {}], python.files,
                     python.trace, "")
            ELSE Attempt(python, "getmtime", failing,
                         [python.data EXCEPT !.sources = python_files],
                         python.files)

\* The tracker is written back and validated once more.
WrittenBack(run, failing) ==
    IF run.err # "" THEN run
    ELSE LET written == Attempt(run, "write", failing, run.data,
                                (TrackerPath :> Mapping(run.data)) @@ run.files)
         IN IF written.err # "" THEN written
            ELSE Validated(written, "validate_final")

\* What becomes of an exception without the handlers.
ReturnedUncaught(err) == IF err = "" THEN "returned" ELSE "raised"

\* return 0 at the end of the try block; except ValidationError: return 1;
\* except Exception: return 1.
Returned(err) == "returned"

ResultOf(err) == IF err = "" THEN 0 ELSE 1

\* update_tracker(tracker_path)
UpdateTrackerOp(fs, ds, failing, python_files) ==
    LET loaded     == Loaded(fs, failing)
        documented == Documented(loaded, fs, ds, failing)
        checked    == IF documented.err # "" THEN documented
                      ELSE Validated(documented, "validate")
        collected  == Collected(checked, failing, python_files)
        done       == WrittenBack(collected, failing)
    IN [files |-> done.files, trace |-> done.trace,
        outcome |-> Returned(done.err),
        result |-> IF Returned(done.err) = "returned"
                   THEN Some(ResultOf(done.err)) ELSE None]

\* A repository without a tracker and without docs.
InitTracker ==
    /\ dirs = {".github"}
    /\ files = <<>>
    /\ now = 0
    /\ last = NoCall
    /\ order = <<>>
    /\ procs = <<>>
    /\ wr = None
    /\ nops = 0

\* The hook runs; any one of its steps may fail, or none.
UpdateTracker ==
    /\ nops < MaxTrackerOps
    /\ \E failing \in TrackerSteps \cup {"none"}, python_files \in PythonFiles :
          LET r == UpdateTrackerOp(files, dirs, failing, python_files)
          IN /\ files' = r.files
             /\ last' = Call("update_tracker", ".github", TrackerPath[2],
                             [result |-> r.result, trace |-> r.trace,
                              failing |-> failing],
                             "", None, r.outcome, 0, now)
    /\ nops' = nops + 1
    /\ UNCHANGED <<dirs, now, order, procs, wr>>

\* The tracker as somebody may have left it: without one of its sections,
\* with a version the schema rejects, or empty.
EditedTrackers(data) ==
    {Mapping([data EXCEPT !.sections = @ \ {s}]) : s \in Sections}
        \cup {Mapping([data EXCEPT !.version = BadVersion]), EmptyTracker}

EditTracker ==
    /\ nops < MaxTrackerOps
    /\ Exists(files, TrackerPath)
    /\ files[TrackerPath].kind = "mapping"
    /\ \E edited \in EditedTrackers(files[TrackerPath].data) :
          files' = [files EXCEPT ![TrackerPath] = edited]
    /\ last' = Call("edit_tracker", ".github", TrackerPath[2], NoData, "", None,
                    "ok", 0, now)
    /\ nops' = nops + 1
    /\ UNCHANGED <<dirs, now, order, procs, wr>>

\* A docs directory is made.
MakeDocsDir ==
    /\ nops < MaxTrackerOps
    /\ "docs" \notin dirs
    /\ dirs' = dirs \cup {"docs"}
    /\ last' = Call("make_docs_dir", "docs", Latest, NoData, "", None, "ok", 0,
                    now)
    /\ nops' = nops + 1
    /\ UNCHANGED <<files, now, order, procs, wr>>

\* The documentation is generated into it.
GenerateDocs ==
    /\ nops < MaxTrackerOps
    /\ "docs" \in dirs
    /\ files' = (GetFilepath("docs", DocName("index", ".html")) :> <<LF>>)
                @@ files
    /\ last' = Call("generate_docs", "docs", Latest, NoData, "", None, "ok", 0,
                    now)
    /\ nops' = nops + 1
    /\ UNCHANGED <<dirs, now, order, procs, wr>>

NextTracker == UpdateTracker \/ EditTracker \/ MakeDocsDir \/ GenerateDocs

SpecTracker == InitTracker /\ [][NextTracker]_vars

-----------------------------------------------------------------------------
(* The operations of ProjectManager as coroutines.  Each await of the      *)
(* collaborator suspends the operation until the call returns or fails;    *)
(* the steps here are the issue of a call and its return or failure.       *)

\* The one task that runs the operations.
Coroutines == {1}

AwaitedOps == {"get_project_status", "analyze_risks", "generate_report"}

\* The collaborator calls of get_project_status(detailed=True), in order:
\* the one of generate_task_summary, made when there are tasks.
StatusSites(fs, ds) ==
    IF TaskIds(fs, ds) = {} THEN <<>> ELSE <<"task_summary">>

\* Those of analyze_risks: the detailed status, then the analysis.
RiskSites(fs, ds) == StatusSites(fs, ds) \o <<"risk_analysis">>

\* Those of generate_report: the detailed status, analyze_risks, the report.
ReportSites(fs, ds) == StatusSites(fs, ds) \o RiskSites(fs, ds) \o <<"report">>

SitesOf(op, fs, ds) ==
    IF op = "get_project_status" THEN StatusSites(fs, ds)
    ELSE IF op = "analyze_risks" THEN RiskSites(fs, ds)
    ELSE ReportSites(fs, ds)

\* An operation that awaits nothing.
SuspendedNever(me) == FALSE

\* await: the operation does not go on while a call of its is outstanding.
Suspended(me) == me.outstanding # {}

\* What the operation has done when it ends at t, call number failing having
\* failed (0: none).
EffectOf(me, fs, ds, failing, t) ==
    IF me.op = "get_project_status"
    THEN LET status == DetailedStatusOp(fs, ds, failing # 1)
         IN [outcome |-> IF status.outcome = "sentinel" THEN "ok"
                         ELSE status.outcome,
             files |-> fs, calls |-> status.calls, saved |-> None,
             cause |-> IF failing = 1 THEN "external-service-error" ELSE ""]
    ELSE IF me.op = "analyze_risks"
    THEN LET r == AnalyzeRisksOp(fs, ds, failing, t)
         IN [outcome |-> r.outcome, files |-> r.files, calls |-> r.calls,
             saved |-> r.saved, cause |-> r.cause]
    ELSE LET r == GenerateReportOp(fs, ds, failing, me.savedAt, t, "markdown")
         IN [outcome |-> r.outcome, files |-> r.files, calls |-> r.calls,
             saved |-> r.saved, cause |-> r.cause]

\* The operation of p ends with r: its result, or the error it raises.
FinishWith(p, me, r) ==
    /\ files' = r.files
    /\ order' = IF r.saved = None THEN order ELSE Saved(order, r.saved[1])
    /\ procs' = [q \in DOMAIN procs \cup {p} |->
                    IF q = p THEN [me EXCEPT !.pc = "done"] ELSE procs[q]]
    /\ last' = Caused(Call(me.op, "", IF r.saved = None THEN Latest
                                      ELSE r.saved[1],
                           NoData, "", None, r.outcome, r.calls, me.start),
                      r.cause)
    /\ nops' = nops + 1

Finish(p, me, failing) ==
    FinishWith(p, me, EffectOf(me, files, dirs, failing, now))

\* No operation is under way.
Idle == \A p \in DOMAIN procs : procs[p].pc = "done"

\* An operation is called; one without a collaborator call to make returns
\* at once.
Begin(p) ==
    /\ nops < MaxOps
    /\ Idle
    /\ \E op \in AwaitedOps :
        LET me == [op |-> op, pc |-> "running", sites |-> SitesOf(op, files, dirs),
                   issued |-> 0, outstanding |-> {}, returned |-> {},
                   failed |-> {}, savedAt |-> now, start |-> now]
        IN IF me.sites = <<>>
           THEN Finish(p, me, 0)
           ELSE /\ procs' = [q \in DOMAIN procs \cup {p} |->
                                IF q = p THEN me ELSE procs[q]]
                /\ UNCHANGED <<files, order, last, nops>>
    /\ UNCHANGED <<dirs, now, wr>>

\* await openai.ChatCompletion.acreate(...): the next call is made.
IssueCall(p) ==
    /\ p \in DOMAIN procs
    /\ procs[p].pc = "running"
    /\ ~Suspended(procs[p])
    /\ procs[p].issued < Len(procs[p].sites)
    /\ procs' = [procs EXCEPT ![p].issued = @ + 1,
                              ![p].outstanding = @ \cup {procs[p].issued + 1}]
    /\ UNCHANGED <<dirs, files, now, last, order, wr, nops>>

\* The operation of p goes on after the return of call n; risks is what
\* analyze_risks has done when the call was its own.
GoOn(p, me, n, risks) ==
    IF n = Len(me.sites)
       \/ (me.sites[n] = "risk_analysis" /\ risks.outcome # "ok")
    THEN Finish(p, me, 0)
    ELSE /\ procs' = [procs EXCEPT ![p] = me]
         /\ files' = IF me.sites[n] = "risk_analysis" THEN risks.files
                     ELSE files
         /\ order' = IF me.sites[n] = "risk_analysis"
                     THEN Saved(order, risks.saved[1]) ELSE order
         /\ UNCHANGED <<last, nops>>

\* A call returns.  analyze_risks saves its result on the return of its
\* call; the operation ends on the return of its last call, or when that
\* save fails.
Respond(p) ==
    /\ p \in DOMAIN procs
    /\ procs[p].pc = "running"
    /\ \E n \in procs[p].outstanding :
        GoOn(p, [procs[p] EXCEPT !.outstanding = @ \ {n},
                                 !.returned = @ \cup {n},
                                 !.savedAt = IF procs[p].sites[n] = "risk_analysis"
                                             THEN now ELSE @],
             n, AnalyzeRisksOp(files, dirs, 0, now))
    /\ UNCHANGED <<dirs, now, wr>>

\* A call fails: the error propagates and ends the operation.
FailCall(p) ==
    /\ p \in DOMAIN procs
    /\ procs[p].pc = "running"
    /\ \E n \in procs[p].outstanding :
        Finish(p, [procs[p] EXCEPT !.outstanding = @ \ {n},
                                   !.failed = @ \cup {n}], n)
    /\ UNCHANGED <<dirs, now, wr>>

\* Tasks are created between operations.
AwaitSetup == Idle /\ CreateTask

NextAwait ==
    \/ Tick
    \/ AwaitSetup
    \/ \E p \in Coroutines : Begin(p) \/ IssueCall(p) \/ Respond(p) \/ FailCall(p)

SpecAwait == Init /\ [][NextAwait]_vars

-----------------------------------------------------------------------------
(* Steps, as the last-call record shows them *)

\* This step is a call of op (every call counts itself in nops).
StepOf(op) == nops' = nops + 1 /\ last'.op = op

TaskAt(fs, task_id) == Parse(fs[GetFilepath("tasks", task_id)])

History(task) ==
    IF "progress_history" \in DOMAIN task THEN task.progress_history ELSE <<>>

-----------------------------------------------------------------------------
(* Claims *)

\* C1: for every category, name and record d, save(category, name, d)
\* followed by load(category, name) returns exactly the fields of d except
\* last_updated, which is present and not older than the start of the save,
\* whatever was stored there before.
C1_SaveLoadRoundTrip ==
    last.op = "save_data" =>
        LET got == LoadData(files, last.category, last.name)
        IN /\ got # None
           /\ DOMAIN got[1] = DOMAIN last.data \cup {"last_updated"}
           /\ \A k \in DOMAIN last.data \ {"last_updated"} : got[1][k] = last.data[k]
           /\ got[1].last_updated >= last.start

\* C2: at every point during or after a save, a load of the file finds valid
\* JSON: the complete record stored before the save or the complete new one,
\* never an empty or partly written file.
C2_AtomicSave ==
    /\ \A p \in DOMAIN files : ValidJson(files[p])
    /\ wr # None =>
         \/ files[wr[1].path] = wr[1].text
         \/ wr[1].prev # None /\ files[wr[1].path] = wr[1].prev[1]

\* C3: every successful create_task returns an id that no task in the store
\* has, so the number of task records grows by exactly one.
C3_UniqueTaskIds ==
    [][StepOf("create_task") /\ last'.outcome = "ok" =>
          /\ last'.name \notin TaskIds(files, dirs)
          /\ Cardinality(TaskIds(files', dirs')) = Cardinality(TaskIds(files, dirs)) + 1]_vars

\* C4 as stated: update_task_status on an existing id sets status, makes
\* updated_at strictly greater than before and, whenever notes are given,
\* makes progress_history exactly one entry longer, the new last entry
\* carrying the given status and notes.
C4_StrictlyAdvances ==
    [][StepOf("update_task_status") /\ Exists(files, GetFilepath("tasks", last'.name)) =>
          LET old == TaskAt(files, last'.name)
              new == TaskAt(files', last'.name)
          IN /\ new.status = last'.status
             /\ new.updated_at > old.updated_at
             /\ last'.notes # None =>
                  /\ Len(History(new)) = Len(History(old)) + 1
                  /\ History(new)[Len(History(new))].status = last'.status
                  /\ History(new)[Len(History(new))].notes = last'.notes[1]]_vars

\* C4 amended: update_task_status on an existing id sets status and sets
\* updated_at to the clock's reading, which is not less than the value
\* before; when the notes given are not empty, progress_history is the
\* history before with one entry appended that carries the given status and
\* notes, and otherwise progress_history is as it was.
C4_UpdateSetsFields ==
    [][StepOf("update_task_status") /\ Exists(files, GetFilepath("tasks", last'.name)) =>
          LET old == TaskAt(files, last'.name)
              new == TaskAt(files', last'.name)
          IN /\ last'.outcome = "ok"
             /\ new.status = last'.status
             /\ new.updated_at = now'
             /\ new.updated_at >= old.updated_at
             /\ Truthy(last'.notes) =>
                  /\ Len(History(new)) = Len(History(old)) + 1
                  /\ SubSeq(History(new), 1, Len(History(old))) = History(old)
                  /\ History(new)[Len(History(new))].status = last'.status
                  /\ History(new)[Len(History(new))].notes = last'.notes[1]
             /\ ~Truthy(last'.notes) =>
                  /\ History(new) = History(old)
                  /\ ("progress_history" \in DOMAIN new) = ("progress_history" \in DOMAIN old)]_vars

\* C4's case: a task updated with notes, after the clock has advanced.
C4_Witness ==
    /\ last.op = "update_task_status"
    /\ last.outcome = "ok"
    /\ Truthy(last.notes)
    /\ Exists(files, GetFilepath("tasks", last.name))
    /\ LET task == TaskAt(files, last.name)
       IN /\ task.updated_at > task.created_at
          /\ Len(History(task)) = 2

\* C5: update_task_status on an id with no task record fails with not-found
\* and leaves every record of the store as it was.
C5_NotFoundChangesNothing ==
    [][StepOf("update_task_status") /\ ~Exists(files, GetFilepath("tasks", last'.name)) =>
          /\ last'.outcome = "not-found"
          /\ files' = files
          /\ dirs' = dirs]_vars

\* C5's case: the call failed with not-found while other tasks are stored.
C5_Witness ==
    /\ last.op = "update_task_status"
    /\ last.outcome = "not-found"
    /\ TaskIds(files, dirs) # {}
    /\ last.name \notin TaskIds(files, dirs)

\* The entry a caller's call appends.
CallerEntry(me) == [status |-> me.status, notes |-> me.notes[1]]

\* What of an entry the claim speaks of.
EntryShown(e) == [status |-> e.status, notes |-> e.notes]

Shown(history) == [i \in 1..Len(history) |-> EntryShown(history[i])]

\* Both callers updated the same task and are done.
BothUpdated ==
    /\ DOMAIN procs = Callers
    /\ \A p \in Callers : procs[p].pc = "done" /\ procs[p].outcome = "ok"
    /\ procs[1].task_id = procs[2].task_id

\* Caller p's call ended before caller q's began.
OneAfterTheOther(p, q) == procs[p].saveAt < procs[q].loadAt

\* C6: two update_task_status calls with notes on the same task, made one
\* after the other, leave both entries in progress_history in call order;
\* when the calls overlap, the history holds the entry of the caller that
\* saved last and not the other's (the update is lost).
C6_RacingUpdates ==
    BothUpdated =>
        \A p, q \in Callers : p # q /\ procs[p].saveAt < procs[q].saveAt =>
            LET final == Shown(History(TaskAt(files, procs[p].task_id)))
                base  == Shown(History(procs[p].task[1]))
            IN IF OneAfterTheOther(p, q)
               THEN final = base \o <<CallerEntry(procs[p]), CallerEntry(procs[q])>>
               ELSE /\ final = Shown(History(procs[q].task[1])) \o <<CallerEntry(procs[q])>>
                    /\ \A i \in DOMAIN final : final[i] # CallerEntry(procs[p])

\* C6's case: the calls overlapped and one of the two entries is missing.
C6_Witness ==
    /\ BothUpdated
    /\ ~OneAfterTheOther(1, 2)
    /\ ~OneAfterTheOther(2, 1)
    /\ Len(History(TaskAt(files, procs[1].task_id))) = 1

\* The most recently saved record of category analyses.
MostRecentAnalysis ==
    IF order = <<>> THEN None ELSE LoadData(files, "analyses", order[Len(order)])

\* C7: the names of the records in analyses sort in the order in which the
\* records were created, so get_latest_analysis returns the most recently
\* saved record, and absent when there is none.
C7_LatestIsMostRecent ==
    /\ \A i, j \in DOMAIN order :
          i < j => StrLess(NameStr(order[i]), NameStr(order[j]))
    /\ GetLatestAnalysis(files, dirs) = MostRecentAnalysis

\* The records the claim calls immutable: those in analyses, metrics and
\* progress under a name other than latest.
TimestampNamed(fs) ==
    {p \in DOMAIN fs : p[1] \in {"analyses", "metrics", "progress"} /\ p[2] # Latest}

\* C8 as stated: a record in analyses, metrics or progress under a
\* timestamp-derived name is never changed or replaced by a later call.
C8_NeverReplaced ==
    [][\A p \in TimestampNamed(files) : p \in DOMAIN files' /\ files'[p] = files[p]]_vars

\* C8 amended: such a record is never removed, and is changed only by a call
\* that saves a record under the same name, which a call does only while the
\* clock is within the second the name carries; the record named latest
\* alone is overwritten at any time.
C8_ReplacedOnlyOnCollision ==
    [][\A p \in TimestampNamed(files) :
          /\ p \in DOMAIN files'
          /\ files'[p] # files[p] =>
               /\ nops' = nops + 1
               /\ last'.name = p[2]
               /\ SecOf(now) <= p[2].ts
               /\ p[2].ts <= SecOf(now')]_vars

\* C8's case: several records under timestamp-derived names, the metrics
\* record latest written, and a call made in a later second than the first.
C8_Witness ==
    /\ Len(order) >= 2
    /\ Exists(files, GetFilepath("metrics", Latest))
    /\ last.op \in {"process_commit_analysis", "analyze_risks", "generate_report"}
    /\ last.outcome = "ok"
    /\ order[1].ts < SecOf(last.start)

\* C9: process_commit_analysis with status success makes exactly one new
\* record in tasks, with priority high, when more than 5 files changed, and
\* no new task record when 5 or fewer did.
C9_OneReviewTask ==
    [][StepOf("process_commit_analysis") /\ GetStatus(last'.data) = Some("success")
         /\ last'.outcome = "ok" =>
          LET before == TaskIds(files, dirs)
              after  == TaskIds(files', dirs')
          IN IF Len(last'.data.files_changed) > 5
             THEN /\ before \subseteq after
                  /\ Cardinality(after \ before) = 1
                  /\ \A id \in after \ before : TaskAt(files', id).priority = "high"
             ELSE after = before]_vars

\* C10: process_commit_analysis with a status other than "success", or with
\* none, saves nothing, leaves the metrics record latest alone, creates no
\* task and makes no collaborator call, whatever the number of files.
C10_OnlyOnSuccess ==
    [][StepOf("process_commit_analysis")
         /\ ("status" \notin DOMAIN last'.data \/ last'.data.status # "success") =>
          /\ files' = files
          /\ order' = order
          /\ last'.calls = 0
          /\ last'.outcome = "ok"]_vars

\* C10's case: a call without status "success" and with more than 5 files,
\* on a store that holds a metrics record and tasks.
C10_Witness ==
    /\ last.op = "process_commit_analysis"
    /\ GetStatus(last.data) # Some("success")
    /\ Len(last.data.files_changed) > MajorChangeFiles
    /\ Exists(files, GetFilepath("metrics", Latest))
    /\ TaskIds(files, dirs) # {}

-----------------------------------------------------------------------------
(* C11 *)

\* The records of a category, by path.
RecordsOf(fs, category) == {p \in DOMAIN fs : p[1] = category}

\* C11: a generate_report in which every collaborator call succeeds persists
\* the report as exactly one new record under reports and returns that
\* report, metadata included; this on any store the constructor made.
C11_ReportPersisted ==
    [][(StepOf("generate_report") /\ last'.cause # "external-service-error")
       => /\ last'.outcome = "ok"
          /\ "metadata" \in DOMAIN last'.data
          /\ \E p \in RecordsOf(files', "reports") \ RecordsOf(files, "reports") :
                /\ RecordsOf(files', "reports") =
                       RecordsOf(files, "reports") \cup {p}
                /\ \A k \in DOMAIN last'.data :
                       Parse(files'[p])[k] = last'.data[k]]_vars

-----------------------------------------------------------------------------
(* C12, C13 *)

\* C12: when the collaborator call made by create_task fails, create_task
\* fails with the external-service error and the store is left as it was:
\* no task record has been written, in whole or in part.
C12_FailedCreateChangesNothing ==
    [][(StepOf("create_task") /\ last'.cause = "external-service-error")
       => /\ last'.outcome = "external-service-error"
          /\ files' = files
          /\ dirs' = dirs]_vars

\* A create_task failed on a store that already holds a task.
C12_Witness ==
    /\ last.op = "create_task"
    /\ last.cause = "external-service-error"
    /\ last.outcome = "external-service-error"
    /\ TaskIds(files, dirs) # {}

\* C13: right after a successful create_task(title, description, priority)
\* that returned id, get_task(id) returns a record with status "created",
\* the id returned, of the form task_<timestamp of the call>, and the title,
\* description and priority given.
C13_CreatedTaskReadBack ==
    (last.op = "create_task" /\ last.outcome = "ok")
    => LET got == GetTask(files, last.name)
       IN /\ got # None
          /\ got[1].status = "created"
          /\ got[1].id = last.name
          /\ \E sec \in SecOf(last.start)..SecOf(now) :
                NameStr(last.name) = Chars("task") \o <<95>> \o Stamp(sec)
          /\ got[1].title = last.data.title
          /\ got[1].description = last.data.description
          /\ got[1].priority = last.data.priority

\* A task was created in a call that a second boundary fell into.
C13_Witness ==
    /\ last.op = "create_task"
    /\ last.outcome = "ok"
    /\ SecOf(last.start) < SecOf(now)
    /\ GetTask(files, last.name) # None

-----------------------------------------------------------------------------
(* C14 *)

\* The fields of a task that no operation is said to change.
FixedFields == {"title", "description", "priority", "created_at"}

\* C14: across any sequence of the core operations the set of task ids never
\* loses an element, and the title, description, priority and created_at of
\* a task that exists never change.
C14_TasksOnlyUpdated ==
    [][\A id \in TaskIds(files, dirs) :
          /\ id \in TaskIds(files', dirs')
          /\ \A k \in FixedFields :
                TaskAt(files', id)[k] = TaskAt(files, id)[k]]_vars

-----------------------------------------------------------------------------
(* C15 *)

IsPrefix(a, b) == Len(a) <= Len(b) /\ \A i \in 1..Len(a) : a[i] = b[i]

HasHistory(task) == "progress_history" \in DOMAIN task

\* C15: update_task_status calls made one after the other leave every
\* task's progress_history with the history before the call as a prefix; the
\* field is absent from a created task and appears only in an update that
\* carries notes.
C15_HistoryAppendOnly ==
    [][/\ StepOf("update_task_status")
          => \A id \in TaskIds(files, dirs) :
                LET before == TaskAt(files, id)
                    after  == TaskAt(files', id)
                IN /\ IsPrefix(History(before), History(after))
                   /\ (HasHistory(after) /\ ~HasHistory(before))
                         => (last'.name = id /\ Truthy(last'.notes))
       /\ (StepOf("create_task") /\ last'.outcome = "ok")
          => ~HasHistory(TaskAt(files', last'.name))]_vars

\* A task has been updated twice with notes, the second time just now.
C15_Witness ==
    /\ last.op = "update_task_status"
    /\ last.outcome = "ok"
    /\ Len(History(TaskAt(files, last.name))) = 2
    /\ History(TaskAt(files, last.name))[1] # History(TaskAt(files, last.name))[2]

-----------------------------------------------------------------------------
(* C16, C17, C18 *)

\* The stored task records and the statuses they carry.
StoredTasks == RecordsOf(files, "tasks")
StoredStatus(p) == Parse(files[p]).status

RECURSIVE SumOver(_, _)
SumOver(f, keys) ==
    IF keys = {} THEN 0
    ELSE LET k == CHOOSE x \in keys : TRUE IN f[k] + SumOver(f, keys \ {k})

\* C16: the status_breakdown of generate_task_summary over a non-empty task
\* set has exactly the keys created, in_progress and completed, each counting
\* the tasks with exactly that status; the counts sum to at most task_count,
\* and to task_count exactly when every task's status is one of the three.
C16_BreakdownCounts ==
    (last.op = "generate_task_summary" /\ last.outcome = "ok")
    => LET breakdown == last.data.status_breakdown
           total     == SumOver(breakdown, DOMAIN breakdown)
       IN /\ DOMAIN breakdown = {"created", "in_progress", "completed"}
          /\ \A status \in DOMAIN breakdown :
                breakdown[status] =
                    Cardinality({p \in StoredTasks : StoredStatus(p) = status})
          /\ last.data.task_count = Cardinality(StoredTasks)
          /\ total <= last.data.task_count
          /\ (total = last.data.task_count)
                <=> (\A p \in StoredTasks :
                        StoredStatus(p) \in {"created", "in_progress", "completed"})

\* The summary of three tasks with statuses created, created and done.
C16_Witness ==
    /\ last.op = "generate_task_summary"
    /\ last.outcome = "ok"
    /\ last.data.task_count = 3
    /\ last.data.status_breakdown.created = 2
    /\ \E p \in StoredTasks : StoredStatus(p) = "done"

\* C17: generate_task_summary on a store without tasks returns the "no
\* tasks" sentinel, without failing and without a call to the collaborator,
\* whether the collaborator is available or not.
C17_NoTasksNoCall ==
    (last.op = "generate_task_summary" /\ StoredTasks = {})
    => /\ last.outcome = "sentinel"
       /\ last.data = [summary |-> "No tasks found"]
       /\ last.calls = 0

\* The summary was asked of an empty store with the collaborator down.
C17_Witness ==
    /\ last.op = "generate_task_summary"
    /\ StoredTasks = {}
    /\ last.service = "down"
    /\ last.outcome = "sentinel"

\* C18: list_tasks(status) returns exactly the stored tasks whose status
\* equals the string given, each once, and list_tasks() every stored task: a
\* filter the caller gives is never ignored.
C18_FilterNeverIgnored ==
    (last.op = "list_tasks")
    => LET wanted == IF last.data.status = None THEN StoredTasks
                     ELSE {p \in StoredTasks :
                              StoredStatus(p) = last.data.status[1]}
           tasks  == last.data.tasks
       IN /\ Len(tasks) = Cardinality(wanted)
          /\ \A p \in wanted : \E i \in DOMAIN tasks : tasks[i] = Parse(files[p])

-----------------------------------------------------------------------------
(* C20 *)

\* The contents of the records of a category.
Contents(category) == {Parse(files[p]) : p \in RecordsOf(files, category)}

\* The list holds each of the records once.
HoldsEach(list, category) ==
    /\ Len(list) = Cardinality(RecordsOf(files, category))
    /\ \A p \in RecordsOf(files, category) :
          \E i \in DOMAIN list : list[i] = Some(Parse(files[p]))

\* The record of a category under the name latest, if there is one.
LatestOf(category) ==
    IF GetFilepath(category, Latest) \in DOMAIN files
    THEN Some(Parse(files[GetFilepath(category, Latest)])) ELSE None

\* The analysis whose name no other analysis's name sorts after.
LastNamedAnalysis ==
    LET paths == RecordsOf(files, "analyses")
    IN IF paths = {} THEN None
       ELSE LET top == CHOOSE p \in paths :
                          \A q \in paths \ {p} : StrLess(NameStr(q[2]), NameStr(p[2]))
            IN Some(Parse(files[top]))

-----------------------------------------------------------------------------
(* C19 *)

\* The records this step wrote: the new ones and those whose text changed.
Written(p) == p \notin DOMAIN files \/ files'[p] # files[p]

\* C19: every record that any of the core operations persists, in any
\* category, carries last_updated, set to the clock at the time of the save
\* that wrote it, whatever last_updated the data handed to the save carried
\* (the store starts empty, so every record in it was written by a step).
C19_LastUpdatedStamped ==
    [][\A p \in DOMAIN files' :
          Written(p) => LET record == Parse(files'[p])
                        IN /\ "last_updated" \in DOMAIN record
                           /\ now <= record.last_updated
                           /\ record.last_updated <= now']_vars

\* A task loaded with the stamp of its creation was saved again later, and
\* carries the stamp of that save.
C19_Witness ==
    /\ last.op = "update_task_status"
    /\ last.outcome = "ok"
    /\ TaskAt(files, last.name).created_at < now
    /\ TaskAt(files, last.name).last_updated = now
    /\ \E p \in RecordsOf(files, "analyses") : Parse(files[p]).last_updated < now

-----------------------------------------------------------------------------
(* C21 *)

\* The collaborator calls analyze_risks makes when none fails: the task
\* summary of the detailed status when there are tasks, then the analysis.
RiskCalls == IF TaskIds(files, dirs) = {} THEN 1 ELSE 2

\* One of them was to fail in this step.
CollaboratorFails == last'.failing \in 1..RiskCalls

\* The step wrote the record at path and nothing else.
WroteOnly(path) ==
    /\ DOMAIN files' = DOMAIN files \cup {path}
    /\ \A q \in DOMAIN files \ {path} : files'[q] = files[q]

\* The name of a risk analysis made during this step.
RiskPaths ==
    {GetFilepath("analyses", Name("risk_analysis", sec)) :
        sec \in SecOf(now)..SecOf(now')}

\* What analyze_risks does when a collaborator call or the write fails.
RisksFailWrapped ==
    (CollaboratorFails \/ "analyses" \notin dirs)
    => /\ last'.outcome = "analysis-failed"
       /\ last'.cause = IF CollaboratorFails THEN "external-service-error"
                        ELSE "io-error"
       /\ files' = files

C21_WriteFailed ==
    /\ last.op = "analyze_risks"
    /\ last.outcome = "analysis-failed"
    /\ last.cause = "io-error"

-----------------------------------------------------------------------------
(* C22 *)

\* C22: load_data of a (category, name) under which no record exists
\* returns None without raising, and list_files of a category whose
\* directory does not exist returns the empty list; neither creates
\* anything in the store.
C22_ReadingTheAbsent ==
    [][/\ (StepOf("load_data")
           /\ GetFilepath(last'.category, last'.name) \notin DOMAIN files)
          => /\ last'.outcome = "absent"
             /\ last'.data.result = None
             /\ files' = files
             /\ dirs' = dirs
       /\ (StepOf("list_files") /\ last'.category \notin dirs)
          => /\ last'.outcome = "ok"
             /\ last'.data.names = <<>>
             /\ files' = files
             /\ dirs' = dirs]_vars

\* A record was asked for in a category whose directory is gone, the store
\* holding other records.
C22_Witness ==
    /\ last.op = "load_data"
    /\ last.outcome = "absent"
    /\ last.category \in FixedCategories \ dirs
    /\ files # <<>>

\* A category without directory was listed.
C22_ListedMissing ==
    /\ last.op = "list_files"
    /\ last.category \notin dirs
    /\ last.data.names = <<>>

-----------------------------------------------------------------------------
(* C23 *)

\* C23: after any call of ensure_directories, the first or a repeated one,
\* exactly the four directories tasks, progress, metrics and analyses are
\* present; the call does not fail and leaves every stored record as it
\* was, and a call that follows another changes nothing at all.
C23_EnsureIdempotent ==
    [][StepOf("ensure_directories")
       => /\ last'.outcome = "ok"
          /\ dirs' = {"tasks", "progress", "metrics", "analyses"}
          /\ files' = files
          /\ last.op = "ensure_directories" => dirs' = dirs]_vars

\* ensure_directories has run on a store that holds records, as the third
\* call or later, and the four directories are there.
C23_Witness ==
    /\ last.op = "ensure_directories"
    /\ nops >= 3
    /\ files # <<>>
    /\ dirs = FixedCategories

-----------------------------------------------------------------------------
(* C24, C30 *)

NoCrLf(c) == \A i \in 1..(Len(c) - 1) : ~(c[i] = CR /\ c[i + 1] = LF)

\* No whitespace right before a newline or at the end of the content.
NoTrailingWhitespace(c) ==
    \A i \in 1..Len(c) :
        (i = Len(c) \/ c[i + 1] = LF) => (c[i] = LF \/ c[i] \notin Whitespace)

EndsWithOneNewline(c) ==
    /\ c # <<>>
    /\ c[Len(c)] = LF
    /\ Len(c) >= 2 => c[Len(c) - 1] # LF

\* C24: after normalize_file_content every .html and .js file, whatever
\* bytes it held, contains no CRLF, has no trailing whitespace on any line
\* and ends with exactly one newline; every other file is unchanged.
C24_NormalForm ==
    (last.op = "normalize_file_content")
    => \A p \in DOMAIN files :
          IF p[2].suffix \in {".html", ".js"}
          THEN /\ NoCrLf(files[p])
               /\ NoTrailingWhitespace(files[p])
               /\ EndsWithOneNewline(files[p])
          ELSE files[p] = last.data.before[p]

\* C30: a second normalize_file_content leaves every .html and .js file
\* with the bytes the first one left.
C30_NormalizeIdempotent ==
    [][(StepOf("normalize_file_content") /\ last.op = "normalize_file_content")
       => files' = files]_vars

-----------------------------------------------------------------------------
(* C25 *)

\* The steps the last run of update_tracker went through.
TrackerTrace == last.data.trace

\* One of them failed: a validation, or a step of the environment.
StepFailed == \E i \in 1..Len(TrackerTrace) : ~TrackerTrace[i].ok

\* C25: update_tracker never raises; it returns 1 when a validation or any
\* other step fails, and 0 only when every step succeeded, the final
\* validation of the tracker written included.
C25_TrackerNeverRaises ==
    (last.op = "update_tracker")
    => /\ last.outcome = "returned"
       /\ last.data.result \in {Some(0), Some(1)}
       /\ StepFailed => last.data.result = Some(1)
       /\ (last.data.result = Some(0))
          => /\ ~StepFailed
             /\ TrackerTrace[Len(TrackerTrace)] = Step("validate_final", TRUE)
             /\ \E i \in 1..Len(TrackerTrace) :
                   TrackerTrace[i] = Step("write", TRUE)
             /\ Exists(files, TrackerPath)
             /\ files[TrackerPath].kind = "mapping"
             /\ Valid(files[TrackerPath].data)

\* A run failed on the modification time of the docs directory and
\* returned 1.
C25_Witness ==
    /\ last.op = "update_tracker"
    /\ TrackerTrace[Len(TrackerTrace)] = Step("stat", FALSE)
    /\ last.data.result = Some(1)

\* A run failed the validation of a tracker without its project section and
\* returned 1.
C25_ValidationFailed ==
    /\ last.op = "update_tracker"
    /\ TrackerTrace[Len(TrackerTrace)] = Step("validate", FALSE)
    /\ "project" \notin files[TrackerPath].data.sections
    /\ last.data.result = Some(1)

\* A run on a tracker that lacked its documentation section went through
\* every step and returned 0.
C25_Updated ==
    /\ last.op = "update_tracker"
    /\ last.data.result = Some(0)
    /\ TrackerTrace[1] = Step("read", TRUE)
    /\ \E i \in 1..Len(TrackerTrace) : TrackerTrace[i] = Step("getmtime", TRUE)

-----------------------------------------------------------------------------
(* C26 *)

\* The operation of p made a call in this step.
Issued(p) ==
    /\ p \in DOMAIN procs
    /\ procs'[p].pc = "running"
    /\ procs[p].pc = "running"
    /\ procs'[p].issued > procs[p].issued

\* C26: during an operation at most one collaborator call is outstanding at
\* any time, and a call is made only after every earlier call of the
\* operation has returned or failed.
C26_OneCallAtATime ==
    [][\A p \in DOMAIN procs' :
          /\ Cardinality(procs'[p].outstanding) <= 1
          /\ Issued(p)
             => /\ procs[p].outstanding = {}
                /\ 1..procs[p].issued
                       \subseteq procs[p].returned \cup procs[p].failed]_vars

\* generate_report, with tasks in the store, waits for the report: its
\* fourth call, the three before it returned.
C26_Witness ==
    /\ 1 \in DOMAIN procs
    /\ procs[1].op = "generate_report"
    /\ procs[1].sites = <<"task_summary", "task_summary", "risk_analysis", "report">>
    /\ procs[1].outstanding = {4}
    /\ procs[1].returned = {1, 2, 3}

-----------------------------------------------------------------------------
(* C27 *)

\* The fields of a task update_task_status may change.
UpdatedFields == {"status", "updated_at", "last_updated", "progress_history"}

\* C27: update_task_status on an existing task changes, of that task's
\* record, only status, updated_at, last_updated and, when notes are given,
\* progress_history: every other field (id, title, description, priority,
\* created_at, analysis) is as it was, and no other record of any category is
\* created, changed or removed.
C27_UpdateFrame ==
    [][(StepOf("update_task_status")
        /\ Exists(files, GetFilepath("tasks", last'.name)))
       => LET path == GetFilepath("tasks", last'.name)
              old  == TaskAt(files, last'.name)
              new  == TaskAt(files', last'.name)
          IN /\ DOMAIN files' = DOMAIN files
             /\ \A q \in DOMAIN files \ {path} : files'[q] = files[q]
             /\ dirs' = dirs
             /\ DOMAIN new \ UpdatedFields = DOMAIN old \ UpdatedFields
             /\ \A k \in DOMAIN old \ UpdatedFields : new[k] = old[k]
             /\ {"id", "title", "description", "priority", "created_at",
                 "analysis"} \subseteq DOMAIN old \ UpdatedFields
             /\ (last'.notes = None)
                => /\ HasHistory(new) = HasHistory(old)
                   /\ History(new) = History(old)]_vars

\* A task was updated with notes in a store that holds a record of another
\* category as well, and its status and history are new.
C27_Witness ==
    /\ last.op = "update_task_status"
    /\ last.outcome = "ok"
    /\ Truthy(last.notes)
    /\ Exists(files, GetFilepath("tasks", last.name))
    /\ TaskAt(files, last.name).status = last.status
    /\ Len(History(TaskAt(files, last.name))) = 1
    /\ \E q \in DOMAIN files : q[1] # "tasks"

-----------------------------------------------------------------------------
(* C28 *)

\* The records process_commit_analysis saves, called now.
CommitPath == GetFilepath("analyses", AnalysisName(now))
MetricsPath == GetFilepath("metrics", Latest)

\* The step left the records of category as they were.
Untouched(category) ==
    /\ RecordsOf(files', category) = RecordsOf(files, category)
    /\ \A p \in RecordsOf(files, category) : files'[p] = files[p]

\* The step saved the analysis it was given.
AnalysisPersisted ==
    /\ Exists(files', CommitPath)
    /\ files'[CommitPath] = Dump(Stamped(last'.data, now))

\* The step put the analysis's metrics in the place of the record latest.
MetricsOverwritten ==
    /\ Exists(files', MetricsPath)
    /\ files'[MetricsPath] = Dump(Stamped(CommitMetrics(last'.data, now), now))

\* C28: process_commit_analysis with status success persists the analysis,
\* then overwrites the metrics record latest, then, only for more than 5
\* files, creates the review task: a step that fails leaves the effects of
\* the steps before it and none of the steps after it.  When the task
\* creation fails because the collaborator fails, the error propagates, the
\* analysis and the updated metrics are persisted and no task record is
\* written.
C28_CommitEffectsInOrder ==
    [][(StepOf("process_commit_analysis") /\ GetStatus(last'.data) = Some("success"))
       => /\ "analyses" \notin dirs
             => /\ last'.outcome = "io-error"
                /\ files' = files
                /\ last'.calls = 0
          /\ ("analyses" \in dirs /\ "metrics" \notin dirs)
             => /\ last'.outcome = "io-error"
                /\ AnalysisPersisted
                /\ ~Exists(files', MetricsPath)
                /\ Untouched("tasks")
                /\ last'.calls = 0
          /\ ("analyses" \in dirs /\ "metrics" \in dirs)
             => /\ AnalysisPersisted
                /\ MetricsOverwritten
                /\ IF Len(last'.data.files_changed) > 5
                   THEN /\ last'.calls = 1
                        /\ last'.outcome # "ok" => Untouched("tasks")
                        /\ ("tasks" \in dirs)
                           => last'.outcome \in {"ok", "external-service-error"}
                   ELSE /\ last'.calls = 0
                        /\ last'.outcome = "ok"
                        /\ Untouched("tasks")]_vars

\* A commit of more than 5 files was processed, the collaborator failed and
\* the error propagated: the analysis and the metrics are stored and there
\* is no task.
C28_Witness ==
    /\ last.op = "process_commit_analysis"
    /\ Len(last.data.files_changed) > MajorChangeFiles
    /\ last.outcome = "external-service-error"
    /\ LoadData(files, "analyses", last.name) = Some(Stamped(last.data, last.start))
    /\ LoadData(files, "metrics", Latest)
           = Some(Stamped(CommitMetrics(last.data, last.start), last.start))
    /\ RecordsOf(files, "tasks") = {}

\* The metrics could not be written, the directory being gone: the analysis
\* is stored and the collaborator was not called.
C28_MetricsFailed ==
    /\ last.op = "process_commit_analysis"
    /\ last.outcome = "io-error"
    /\ last.name # Latest
    /\ Exists(files, GetFilepath("analyses", last.name))
    /\ last.calls = 0

-----------------------------------------------------------------------------
(* C29 *)

\* The number of the risk-analysis call among the calls of an operation.
RiskSite(me) == CHOOSE n \in 1..Len(me.sites) : me.sites[n] = "risk_analysis"

\* Where the risk analysis of the operation is stored.
RiskPathOf(me) == GetFilepath("analyses", RiskName(me.savedAt))

\* A risk analysis is stored at path.
RiskStored(fs, path) ==
    /\ Exists(fs, path)
    /\ ValidJson(fs[path])
    /\ "data_snapshot" \in DOMAIN Parse(fs[path])

\* C29: a generate_report whose risk-analysis step succeeds has persisted
\* one risk_analysis record under analyses before it requests the report;
\* when the request or the write of the report then fails, generate_report
\* fails with the wrapped error and that record remains as it was.
C29_RiskAnalysisKept ==
    [][\A p \in DOMAIN procs \cap DOMAIN procs' :
          (procs[p].op = "generate_report" /\ procs[p].pc = "running")
          => LET me == procs'[p]
             IN /\ (RiskSite(me) \in me.returned \ procs[p].returned)
                   => /\ WroteOnly(RiskPathOf(me))
                      /\ RiskStored(files', RiskPathOf(me))
                /\ (Issued(p) /\ me.sites[me.issued] = "report")
                   => /\ RiskSite(me) \in procs[p].returned
                      /\ RiskStored(files, RiskPathOf(me))
                /\ (RiskSite(me) \in procs[p].returned /\ me.pc = "done")
                   => /\ last'.op = "generate_report"
                      /\ last'.outcome # "ok"
                         => /\ last'.outcome = "report-failed"
                            /\ last'.cause \in {"external-service-error",
                                                "io-error"}
                            /\ RiskStored(files', RiskPathOf(me))
                            /\ files'[RiskPathOf(me)] = files[RiskPathOf(me)]]_vars

\* The request of the report failed after three calls that returned:
\* generate_report has failed with the wrapped error, and the risk analysis
\* it made is in the store.
C29_Witness ==
    /\ 1 \in DOMAIN procs
    /\ procs[1].op = "generate_report"
    /\ procs[1].pc = "done"
    /\ procs[1].returned = {1, 2, 3}
    /\ procs[1].failed = {4}
    /\ last.outcome = "report-failed"
    /\ last.cause = "external-service-error"
    /\ RiskStored(files, RiskPathOf(procs[1]))

\* The report was returned by the collaborator and could not be written.
C29_WriteFailed ==
    /\ 1 \in DOMAIN procs
    /\ procs[1].op = "generate_report"
    /\ procs[1].pc = "done"
    /\ procs[1].failed = {}
    /\ last.outcome = "report-failed"
    /\ last.cause = "io-error"
    /\ RiskStored(files, RiskPathOf(procs[1]))

=============================================================================
